---- MODULE Spec2Model ----
(***************************************************************************)
(* Workout-session tracking of gymii-smart-coach:                          *)
(*   - the session timer service (contexts/WorkoutContext.tsx),            *)
(*   - the workout session controller (pages/WorkoutSession.tsx),          *)
(*   - the persisted session snapshot in localStorage.                     *)
(*                                                                         *)
(* Rendering model: React 18 with automatic batching.  The state updates   *)
(* a handler (or the continuation of an async handler) enqueues are        *)
(* committed together, and the effects whose dependencies changed run      *)
(* before the next event is handled.  One action of the model is therefore *)
(* one handler (or one continuation) followed by the render and the        *)
(* effects it triggers.  A closure value an async handler read before its  *)
(* await is kept in the record of the pending request.                     *)
(*                                                                         *)
(* Units: timestamps are milliseconds (Date.now()); weights are            *)
(* thousandths of a kilogram, so that rounding to two decimals is a real   *)
(* computation; volume is weight x reps in the same unit.                  *)
(***************************************************************************)
EXTENDS Integers, Sequences, FiniteSets, TLC

\* ------------------------------------------------------------------------
\* Bounds of the model
\* ------------------------------------------------------------------------
\* the environment events of one run are counted together: clock advances,
\* mounts of the page after the first one, and weight edits
MaxEnvSteps == 1
\* set completions requested and finalizeWorkout calls made in one run
MaxRequests == 3
MaxFinals == 2

\* ------------------------------------------------------------------------
\* Program constants
\* ------------------------------------------------------------------------
Null == -1
SESSION_STORAGE_VERSION == 1
MinRestDuration == 10
DefaultRestDuration == 60
MsPerSecond == 1000
WeightEpsilon == 10

CurrentUserId == "u1"
CurrentWorkoutId == "w1"

\* the instants at which the wall clock is observed (Date.now() steps)
ClockSteps == {3500, 10000}
InitialNow == 1 * MsPerSecond

\* ------------------------------------------------------------------------
\* Numeric helpers
\* ------------------------------------------------------------------------
Max(a, b) == IF a >= b THEN a ELSE b
Min(a, b) == IF a <= b THEN a ELSE b

\* Math.floor(ms / 1000)
FloorSeconds(ms) == ms \div MsPerSecond

\* Math.round(value * 100) / 100 on a weight given in thousandths
Round2(w) == ((w + 5) \div 10) * 10

\* ------------------------------------------------------------------------
\* The workout loaded from the remote store (rows of table exercises,
\* ordered by order_index).  set_plan entries are {reps, weight}, Null
\* standing for a missing field.
\* ------------------------------------------------------------------------
ExerciseRows ==
    << [sets |-> 2, reps |-> 10, weight |-> 1000, rest_seconds |-> 10,
        set_plan |-> << [reps |-> 8, weight |-> 1000], [reps |-> Null, weight |-> 2000] >>],
       [sets |-> 1, reps |-> 12, weight |-> 2000, rest_seconds |-> 0,
        set_plan |-> << >>] >>

Exercises == DOMAIN ExerciseRows

ExSets(e) == ExerciseRows[e].sets
ExReps(e) == ExerciseRows[e].reps
ExRestSeconds(e) == ExerciseRows[e].rest_seconds
ExInitialWeight(e) == ExerciseRows[e].weight
ExSetPlan(e) == ExerciseRows[e].set_plan

\* exercise.set_plan[index] with a 0-based index; Null fields when absent
PlanEntry(e, index) ==
    IF index + 1 <= Len(ExSetPlan(e))
      THEN ExSetPlan(e)[index + 1]
      ELSE [reps |-> Null, weight |-> Null]

\* exercise.set_plan[0]?.weight ?? exercise.weight
DefaultWeight(e, exWeight) ==
    IF PlanEntry(e, 0).weight # Null THEN PlanEntry(e, 0).weight ELSE exWeight

\* ------------------------------------------------------------------------
\* Rest timers
\* ------------------------------------------------------------------------
\* variant: zero seconds are not replaced by the default
createRestTimerOfZero(seconds) ==
    LET duration == Max(MinRestDuration, seconds)
    IN  [duration |-> duration, remaining |-> duration, active |-> FALSE]

\* Math.max(10, Math.round(seconds) || 60)
createRestTimer(seconds) ==
    LET duration == Max(MinRestDuration,
                        IF seconds = 0 THEN DefaultRestDuration ELSE seconds)
    IN  [duration |-> duration, remaining |-> duration, active |-> FALSE]

\* variant: a timer that reaches zero stays active
applyDeltaKeepingActive(timer, deltaSeconds) ==
    IF timer.active /\ timer.remaining > 0
      THEN [timer EXCEPT !.remaining = Max(0, timer.remaining - deltaSeconds)]
      ELSE timer

\* one timer of applyRestTimerDelta
applyDeltaToTimer(timer, deltaSeconds) ==
    IF timer.active /\ timer.remaining > 0
      THEN LET remaining == Max(0, timer.remaining - deltaSeconds)
           IN  [timer EXCEPT !.remaining = remaining, !.active = (remaining > 0)]
      ELSE timer

applyRestTimerDelta(timers, deltaSeconds) ==
    IF deltaSeconds <= 0
      THEN timers
      ELSE [e \in Exercises |-> applyDeltaToTimer(timers[e], deltaSeconds)]

\* the timer a completion before the last set arms:
\* Math.max(10, current.duration || exercise.rest_seconds || 60)
restartedRestTimer(current, restSeconds) ==
    LET duration ==
          Max(MinRestDuration,
              IF current.duration # 0 THEN current.duration
              ELSE IF restSeconds # 0 THEN restSeconds
              ELSE DefaultRestDuration)
    IN  [duration |-> duration, remaining |-> duration, active |-> TRUE]

\* the timer the completion of the last set leaves
stoppedRestTimer(current) == [current EXCEPT !.active = FALSE, !.remaining = current.duration]

\* ------------------------------------------------------------------------
\* Sanitizers used by hydration
\* ------------------------------------------------------------------------
sanitizeProgressMapState(raw) ==
    [e \in Exercises |->
        IF e \in DOMAIN raw /\ raw[e] # Null
          THEN Max(0, Min(ExSets(e), raw[e]))
          ELSE 0]

sanitizeWeightOverridesState(raw, exWeight) ==
    [e \in Exercises |->
        IF e \in DOMAIN raw /\ raw[e] # Null /\ raw[e] >= 0
          THEN Round2(raw[e])
          ELSE DefaultWeight(e, exWeight[e])]

\* variant: the time away is not subtracted
sanitizeRestTimerAsStored(timer, fallback, secondsSinceUpdate) ==
    LET duration == Max(MinRestDuration,
                        IF timer.duration = Null \/ timer.duration = 0
                          THEN fallback.duration ELSE timer.duration)
    IN  [duration |-> duration,
         remaining |-> Min(duration,
                           Max(0, IF timer.remaining = Null THEN duration ELSE timer.remaining)),
         active |-> timer.active]

sanitizeRestTimer(timer, fallback, secondsSinceUpdate) ==
    LET duration == Max(MinRestDuration,
                        IF timer.duration = Null \/ timer.duration = 0
                          THEN fallback.duration ELSE timer.duration)
        remaining0 == Min(duration,
                          Max(0, IF timer.remaining = Null THEN duration ELSE timer.remaining))
        catchUp == timer.active /\ secondsSinceUpdate > 0
        remaining == IF catchUp THEN Max(0, remaining0 - secondsSinceUpdate) ELSE remaining0
        active == IF catchUp THEN remaining > 0 ELSE timer.active
    IN  [duration |-> duration, remaining |-> remaining, active |-> active]

sanitizeRestTimersState(raw, secondsSinceUpdate) ==
    [e \in Exercises |->
        IF e \in DOMAIN raw
          THEN sanitizeRestTimer(raw[e], createRestTimer(ExRestSeconds(e)), secondsSinceUpdate)
          ELSE createRestTimer(ExRestSeconds(e))]

\* ------------------------------------------------------------------------
\* Session timer service (WorkoutProvider).  The provider state is the
\* record [status, elapsedSeconds, startRef, ticker, tickerSince, intervals,
\* mounted, snapshot]; intervals are the window intervals that have been set
\* and not cleared, each [start, since]: the start it computes from and the
\* instant it was created; ticker and tickerSince name the one tickerRef
\* holds (Null when it holds none); mounted is FALSE once the provider has
\* been unmounted.
\* ------------------------------------------------------------------------
IdleSnapshot == [status |-> "idle", start |-> Null, end |-> Null]

InitialTimer ==
    [status |-> "idle", elapsedSeconds |-> 0, startRef |-> Null,
     ticker |-> Null, tickerSince |-> Null, intervals |-> {}, mounted |-> TRUE,
     snapshot |-> IdleSnapshot]

\* the compute() of tickFrom
tickCompute(start, nowMs) == Max(0, FloorSeconds(nowMs - start))

\* clearInterval(tickerRef.current); tickerRef.current = null
clearTicker(t) ==
    IF t.ticker = Null THEN t
    ELSE [t EXCEPT !.intervals = @ \ {[start |-> t.ticker, since |-> t.tickerSince]},
                   !.ticker = Null, !.tickerSince = Null]

\* tickerRef.current = tickFrom(start, setElapsedSeconds)
tickFrom(t, startTimestamp, nowMs) ==
    [t EXCEPT !.intervals = @ \cup {[start |-> startTimestamp, since |-> nowMs]},
              !.ticker = startTimestamp, !.tickerSince = nowMs,
              !.elapsedSeconds = tickCompute(startTimestamp, nowMs)]

applyIdle(t) ==
    [clearTicker(t) EXCEPT !.status = "idle", !.elapsedSeconds = 0]

\* variant: the interval tickerRef holds is not cleared first
applyRunningLeaking(t, startTimestamp, nowMs) ==
    tickFrom([t EXCEPT !.status = "in_progress"], startTimestamp, nowMs)

applyRunning(t, startTimestamp, nowMs) ==
    tickFrom([clearTicker(t) EXCEPT !.status = "in_progress"], startTimestamp, nowMs)

applyCompleted(t, startTimestamp, endTimestamp) ==
    [clearTicker(t) EXCEPT !.status = "completed",
              !.elapsedSeconds = Max(0, FloorSeconds(endTimestamp - startTimestamp))]

\* variant: only an idle timer is started
startTimerFromIdle(t, startTimestamp, nowMs) ==
    IF t.status # "idle" THEN t
    ELSE LET startValue == IF startTimestamp = Null THEN nowMs ELSE startTimestamp
             t1 == [t EXCEPT !.startRef = startValue,
                             !.snapshot = [status |-> "in_progress", start |-> startValue, end |-> Null]]
         IN  applyRunning(t1, startValue, nowMs)

startTimer(t, startTimestamp, nowMs) ==
    LET startValue == IF startTimestamp = Null THEN nowMs ELSE startTimestamp
        t1 == [t EXCEPT !.startRef = startValue,
                        !.snapshot = [status |-> "in_progress", start |-> startValue, end |-> Null]]
    IN  applyRunning(t1, startValue, nowMs)

finishTimer(t, endTimestamp, nowMs) ==
    LET startValue == IF t.startRef = Null THEN nowMs ELSE t.startRef
        endValue == IF endTimestamp = Null THEN nowMs ELSE endTimestamp
        t1 == [t EXCEPT !.startRef = startValue,
                        !.snapshot = [status |-> "completed", start |-> startValue, end |-> endValue]]
    IN  applyCompleted(t1, startValue, endValue)

resetTimer(t) ==
    applyIdle([t EXCEPT !.startRef = Null, !.snapshot = IdleSnapshot])

\* !payload.start : null and 0 are both falsy
Falsy(ts) == ts = Null \/ ts = 0

normalizeSnapshot(payload, nowMs) ==
    IF payload.status = "idle" \/ Falsy(payload.start)
      THEN IdleSnapshot
      ELSE IF payload.status = "in_progress"
        THEN [status |-> "in_progress", start |-> payload.start, end |-> Null]
        ELSE [status |-> "completed", start |-> payload.start,
              end |-> IF payload.end = Null THEN nowMs ELSE payload.end]

\* variant: the comparison with snapshotRef is skipped
syncTimerAlways(t, payload, nowMs) ==
    LET normalized == normalizeSnapshot(payload, nowMs)
    IN  IF normalized.status = "idle" \/ normalized.start = Null
          THEN resetTimer(t)
          ELSE IF normalized.status = "in_progress"
            THEN startTimer(t, normalized.start, nowMs)
            ELSE finishTimer([t EXCEPT !.startRef = normalized.start], normalized.end, nowMs)

syncTimer(t, payload, nowMs) ==
    LET normalized == normalizeSnapshot(payload, nowMs)
    IN  IF t.snapshot = normalized
          THEN t
          ELSE IF normalized.status = "idle" \/ normalized.start = Null
            THEN resetTimer(t)
            ELSE IF normalized.status = "in_progress"
              THEN startTimer(t, normalized.start, nowMs)
              ELSE finishTimer([t EXCEPT !.startRef = normalized.start], normalized.end, nowMs)

\* ------------------------------------------------------------------------
\* Loosely typed JSON read from the remote store and from localStorage.
\* A string is the sequence of its characters; numbers are naturals; NaN
\* stands for every non-finite result of Number(), Null for undefined.
\* ------------------------------------------------------------------------
NaN == -2

JUndefined == [type |-> "undefined"]
JNull == [type |-> "null"]
JNumber(n) == [type |-> "number", value |-> n]
JString(chars) == [type |-> "string", chars |-> chars]
JArray(items) == [type |-> "array", items |-> items]
JObject(fields) == [type |-> "object", fields |-> fields]

\* record.name of a value already known to be truthy
Field(entry, name) ==
    IF entry.type = "object" /\ name \in DOMAIN entry.fields
      THEN entry.fields[name]
      ELSE JUndefined

\* entry && typeof entry === "object"
isObjectShaped(entry) == entry.type \in {"object", "array"}

DigitChars == << "0", "1", "2", "3", "4", "5", "6", "7", "8", "9" >>

IsDigit(c) == \E d \in DOMAIN DigitChars : DigitChars[d] = c

DigitValue(c) == (CHOOSE d \in DOMAIN DigitChars : DigitChars[d] = c) - 1

RECURSIVE DecimalValue(_)
DecimalValue(chars) ==
    IF chars = << >> THEN 0
    ELSE 10 * DecimalValue(SubSeq(chars, 1, Len(chars) - 1)) + DigitValue(chars[Len(chars)])

\* Number(string): the empty string is 0, a string with a non-digit is NaN
Number(chars) ==
    IF \A i \in DOMAIN chars : IsDigit(chars[i]) THEN DecimalValue(chars) ELSE NaN

\* typeof raw === "number" ? raw : typeof raw === "string" ? Number(raw) : otherwise
numberOr(raw, otherwise) ==
    IF raw.type = "number" THEN raw.value
    ELSE IF raw.type = "string" THEN Number(raw.chars)
    ELSE otherwise

\* Number.isFinite(value || NaN) ? value : undefined
finiteOrUnset(value) == IF value \in {Null, NaN, 0} THEN Null ELSE value

\* ------------------------------------------------------------------------
\* Set plans and templates (lib/training.ts, pages/Workouts.tsx)
\* ------------------------------------------------------------------------
NoSetPlanEntry == [set |-> Null, reps |-> Null, weight |-> Null]

\* the first map of parseSetPlan; position is index + 1
parseSetPlanEntry(entry, position) ==
    IF isObjectShaped(entry)
      THEN LET set == numberOr(Field(entry, "set"), position)
           IN  [set |-> IF set # NaN THEN set ELSE position,
                reps |-> finiteOrUnset(numberOr(Field(entry, "reps"), Null)),
                weight |-> finiteOrUnset(numberOr(Field(entry, "weight"), Null))]
      ELSE [set |-> position, reps |-> Null, weight |-> Null]

\* the second map of parseSetPlan
normalizeSetPlanEntry(entry, position) ==
    [set |-> IF entry.set = Null THEN position ELSE entry.set,
     reps |-> IF entry.reps \in {Null, NaN} THEN Null ELSE entry.reps,
     weight |-> IF entry.weight \in {Null, NaN} THEN Null ELSE entry.weight]

\* variant: entries that are not object-shaped are left out
parseSetPlanOfObjects(value) ==
    IF value.type # "array" THEN << >>
    ELSE LET items == SelectSeq(value.items, isObjectShaped)
         IN  [i \in 1..Len(items) |->
                 normalizeSetPlanEntry(parseSetPlanEntry(items[i], i), i)]

parseSetPlan(value) ==
    IF value.type # "array" THEN << >>
    ELSE [i \in 1..Len(value.items) |->
             normalizeSetPlanEntry(parseSetPlanEntry(value.items[i], i), i)]

firstSetPlanEntry(plan) == IF Len(plan) > 0 THEN plan[1] ELSE NoSetPlanEntry

\* JSON.stringify of a set plan: undefined fields are left out
setPlanEntryJson(entry) ==
    JObject([name \in {n \in {"set", "reps", "weight"} : entry[n] # Null} |->
                JNumber(entry[name])])

setPlanJson(plan) == JArray([i \in 1..Len(plan) |-> setPlanEntryJson(plan[i])])

DefaultExerciseName == << "E", "x" >>
DefaultTemplateName == << "T" >>

\* one element of the map of parseTemplateExercises
parseTemplateExercise(entry) ==
    [name |-> IF Field(entry, "name").type = "string"
                THEN Field(entry, "name").chars ELSE DefaultExerciseName,
     rest_seconds |-> finiteOrUnset(numberOr(Field(entry, "rest_seconds"), Null)),
     set_plan |-> parseSetPlan(Field(entry, "set_plan"))]

parseTemplateExercises(value) ==
    IF value.type # "array" THEN << >>
    ELSE LET items == SelectSeq(value.items, isObjectShaped)
         IN  [i \in 1..Len(items) |-> parseTemplateExercise(items[i])]

normalizeTemplate(payload) ==
    [name |-> IF Field(payload, "name").type = "string"
                THEN Field(payload, "name").chars ELSE DefaultTemplateName,
     rest_seconds |-> finiteOrUnset(numberOr(Field(payload, "rest_seconds"), Null)),
     exercises |-> parseTemplateExercises(Field(payload, "exercises"))]

\* the row handleImportTemplate builds for the exercise at a 0-based index;
\* sets, reps and weight fall back to 3, 10 and 0
exercisePayloadRow(template, index, workoutId) ==
    LET exercise == template.exercises[index + 1]
        plan == exercise.set_plan
        firstEntry == firstSetPlanEntry(plan)
    IN  [workout_id |-> workoutId,
         name |-> exercise.name,
         sets |-> IF Len(plan) > 0 THEN Len(plan) ELSE 3,
         reps |-> IF firstEntry.reps # Null THEN firstEntry.reps ELSE 10,
         weight |-> IF firstEntry.weight # Null THEN firstEntry.weight ELSE 0,
         rest_seconds |-> IF exercise.rest_seconds # Null THEN exercise.rest_seconds
                          ELSE IF template.rest_seconds # Null THEN template.rest_seconds
                          ELSE 60,
         order_index |-> index,
         set_plan |-> IF Len(plan) > 0 THEN setPlanJson(plan) ELSE JNull]

\* variant: every row is given position 0
exercisePayloadUnordered(template, workoutId) ==
    [i \in 1..Len(template.exercises) |->
        [exercisePayloadRow(template, i - 1, workoutId) EXCEPT !.order_index = 0]]

exercisePayload(template, workoutId) ==
    [i \in 1..Len(template.exercises) |-> exercisePayloadRow(template, i - 1, workoutId)]

\* ------------------------------------------------------------------------
\* State
\* ------------------------------------------------------------------------
VARIABLES
    now,        \* Date.now()
    canBlock,   \* typeof routerNavigator.block === "function"
    stored,     \* the localStorage entry under storageKey
    remote,     \* remote store: the weight column of the exercise rows
    page,       \* React state of the mounted WorkoutSession page
    timer,      \* state of the WorkoutProvider
    requests,   \* workout_logs inserts awaiting their response
    finals,     \* finalizeWorkout calls awaiting persistPendingWeightOverrides
    weightReqs, \* exercises.update({weight}) calls of handleCompleteSet awaiting their response
    toast,      \* title of the toast the last step showed, "none" when it showed none
    hist,       \* bookkeeping: mounts and environment events so far, rows logged by
                \* the last mounted page, last direct call of the timer service
                \* and the timer status it found
    db,         \* remote store seen by the Workouts page: the auth session and the
                \* tables workout_templates, workouts and exercises
    workoutsPage, \* React state of the Workouts page
    notFound,   \* the NotFound page and the browser storage it scans
    restCard,   \* one exercise row of a session and its rest timer
    restored    \* a stored snapshot and what the sanitizers made of it

libVars == << db, workoutsPage, notFound, restCard, restored >>

vars == << now, canBlock, stored, remote, page, timer, requests, finals, weightReqs, toast, hist,
           db, workoutsPage, notFound, restCard, restored >>

NoEntry == [present |-> FALSE]

ZeroProgress == [e \in Exercises |-> 0]
NotSaving == [e \in Exercises |-> FALSE]

\* the page before it is mounted / after it is unmounted
UnmountedPage ==
    [mounted |-> FALSE, inst |-> 0,
     exWeight |-> [e \in Exercises |-> ExInitialWeight(e)],
     sessionStatus |-> "idle", sessionStart |-> Null, sessionEnd |-> Null,
     sessionVolume |-> 0,
     progressMap |-> ZeroProgress,
     weightOverrides |-> [e \in Exercises |-> 0],
     saving |-> NotSaving,
     restTimers |-> [e \in Exercises |-> createRestTimer(ExRestSeconds(e))],
     activeExerciseId |-> Null,
     confirmFinishOpen |-> FALSE,
     exitPromptOpen |-> FALSE,
     pendingNavigation |-> FALSE,
     restTickRef |-> 0]

Toast(title) == title

\* ------------------------------------------------------------------------
\* The Workouts page: the template catalogue is fetched and normalised,
\* and a template is imported as a workout with its exercise rows
\* ------------------------------------------------------------------------
MaxPlanLen == 2
MaxTemplateExercises == 2
MaxImports == 2

\* raw entries of a set_plan value (any JSON; the exercises column of a
\* catalogue row is constrained to be an array, its elements are not)
RawPlanEntries ==
    { JNull,
      JObject([set |-> JNumber(2), reps |-> JNumber(8), weight |-> JNumber(20)]),
      JObject([reps |-> JString(<< "1", "2" >>), weight |-> JString(<< "x" >>)]),
      JObject([set |-> JString(<< "x" >>), reps |-> JNumber(0), weight |-> JString(<< "0" >>)]),
      JObject([set |-> JString(<< "3" >>), weight |-> JNumber(15)]) }

SeqsUpTo(S, n) == UNION { [1..k -> S] : k \in 0..n }

RawPlans == { JNull } \cup { JArray(items) : items \in SeqsUpTo(RawPlanEntries, MaxPlanLen) }

RawTemplateExercises ==
    { JNumber(7) } \cup
    { JObject([name |-> JString(<< "A" >>), set_plan |-> plan]) : plan \in RawPlans } \cup
    { JObject([rest_seconds |-> JString(<< "4", "5" >>), set_plan |-> plan]) : plan \in RawPlans }

RawTemplateRows ==
    { JObject([name |-> JString(<< "T", "1" >>), rest_seconds |-> rest, exercises |-> exercises]) :
        rest \in { JNull, JNumber(90) },
        exercises \in { JArray(items) :
                          items \in SeqsUpTo(RawTemplateExercises, MaxTemplateExercises) } }

NoImport == [template |-> 0, outcome |-> "none", workoutId |-> 0]

WorkoutsPageIdle ==
    [templates |-> << >>, templatesLoading |-> TRUE, toast |-> "none", route |-> "/workouts",
     imports |-> 0, lastImport |-> NoImport]

ImportIdle ==
    /\ db = [session |-> TRUE, workout_templates |-> << >>, workouts |-> << >>, exercises |-> << >>]
    /\ workoutsPage = WorkoutsPageIdle

\* fetchTemplates and its response
fetchTemplates(ok) ==
    /\ workoutsPage.templatesLoading
    /\ workoutsPage' =
         [workoutsPage EXCEPT
            !.templatesLoading = FALSE,
            !.templates = IF ok THEN [i \in DOMAIN db.workout_templates |->
                                        normalizeTemplate(db.workout_templates[i])]
                          ELSE @,
            !.toast = IF ok THEN "none" ELSE "Erro ao carregar templates"]
    /\ UNCHANGED << now, canBlock, stored, remote, page, timer, requests, finals, weightReqs,
                    toast, hist, db, notFound, restCard, restored >>

\* the auth session ends while the page is open
SessionExpires ==
    /\ db.session
    /\ ~workoutsPage.templatesLoading
    /\ db' = [db EXCEPT !.session = FALSE]
    /\ UNCHANGED << now, canBlock, stored, remote, page, timer, requests, finals, weightReqs,
                    toast, hist, workoutsPage, notFound, restCard, restored >>

\* handleImportTemplate with the responses of its two inserts
handleImportTemplate(t, workoutOk, exercisesOk) ==
    /\ workoutsPage.route = "/workouts"
    /\ workoutsPage.imports < MaxImports
    /\ t \in DOMAIN workoutsPage.templates
    /\ LET template == workoutsPage.templates[t]
           workoutId == Len(db.workouts) + 1
           rows == exercisePayload(template, workoutId)
           outcome == IF ~db.session THEN "no_session"
                      ELSE IF ~workoutOk THEN "workout_error"
                      ELSE IF Len(rows) > 0 /\ ~exercisesOk THEN "exercises_error"
                      ELSE "ok"
       IN  /\ db' = [db EXCEPT
                       !.workouts = IF outcome \in {"ok", "exercises_error"}
                                      THEN Append(@, [id |-> workoutId, name |-> template.name])
                                      ELSE @,
                       !.exercises = IF outcome = "ok" THEN @ \o rows ELSE @]
           /\ workoutsPage' =
                [workoutsPage EXCEPT
                   !.route = IF outcome = "no_session" THEN "/auth" ELSE @,
                   !.toast = CASE outcome = "ok" -> "Treino importado"
                               [] outcome = "no_session" -> "none"
                               [] OTHER -> "Erro ao importar",
                   !.imports = @ + 1,
                   !.lastImport = [template |-> t, outcome |-> outcome, workoutId |-> workoutId]]
    /\ UNCHANGED << now, canBlock, stored, remote, page, timer, requests, finals, weightReqs,
                    toast, hist, notFound, restCard, restored >>

\* ------------------------------------------------------------------------
\* The scan of the stored sessions (lib/workoutSessionStorage.ts) and the
\* NotFound page that offers to resume the latest one
\* ------------------------------------------------------------------------
MaxStoredKeys == 2

HourMs == 60 * 60 * MsPerSecond
DefaultMaxAgeMs == 1000 * 60 * 60 * 12

Unparsable == [type |-> "unparsable"]

UserIds == { << "u", "1" >>, << "u", "2" >> }

\* the JSON text of a snapshot with the fields a scan reads
SessionJson(version, userId, workoutId, status, lastUpdated) ==
    JObject([version |-> JNumber(version), userId |-> JString(userId),
             workoutId |-> JString(workoutId), workoutName |-> JString(<< "n" >> \o workoutId),
             sessionStatus |-> JString(<< status >>), sessionStart |-> JNumber(HourMs),
             lastUpdated |-> lastUpdated])

StoredItem(prefixed, name, value) == [key |-> [prefixed |-> prefixed, name |-> name], value |-> value]

\* items a browser shared by two users can hold
StoredItems ==
    { StoredItem(TRUE, 1, SessionJson(1, << "u", "1" >>, << "w", "1" >>, "in_progress", JNumber(2 * HourMs))),
      StoredItem(TRUE, 2, SessionJson(1, << "u", "1" >>, << "w", "2" >>, "in_progress", JNumber(13 * HourMs))),
      StoredItem(TRUE, 3, SessionJson(1, << "u", "2" >>, << "w", "1" >>, "in_progress", JNumber(13 * HourMs + 1))),
      StoredItem(TRUE, 4, SessionJson(1, << "u", "1" >>, << "w", "3" >>, "completed", JNumber(14 * HourMs))),
      StoredItem(TRUE, 5, SessionJson(2, << "u", "1" >>, << "w", "4" >>, "in_progress", JNumber(14 * HourMs))),
      StoredItem(FALSE, 6, SessionJson(1, << "u", "1" >>, << "w", "5" >>, "in_progress", JNumber(14 * HourMs))),
      StoredItem(TRUE, 7, SessionJson(1, << "u", "1" >>, << "w", "6" >>, "in_progress", JUndefined)),
      StoredItem(TRUE, 8, Unparsable),
      StoredItem(TRUE, 9, SessionJson(1, << "u", "1" >>, << "w", "7" >>, "in_progress", JNumber(13 * HourMs))),
      StoredItem(TRUE, 10, SessionJson(1, << "u", "1" >>, << "w", "8" >>, "paused", JNumber(14 * HourMs))),
      StoredItem(TRUE, 11, SessionJson(1, << >>, << "w", "9" >>, "in_progress", JNumber(14 * HourMs))) }

ScanTimes == { 14 * HourMs, 14 * HourMs + 1, 26 * HourMs }

NoMetadata == [valid |-> FALSE]

\* typeof parsed.name === "string" ? parsed.name : null, the empty sequence for null
stringOrNull(parsed, name) ==
    IF Field(parsed, name).type = "string" THEN Field(parsed, name).chars ELSE << >>

parseMetadata(value, nowMs) ==
    IF value.type \in {"unparsable", "null", "undefined"} THEN NoMetadata
    ELSE LET version == IF Field(value, "version").type = "number"
                          THEN Field(value, "version").value ELSE Null
             workoutId == stringOrNull(value, "workoutId")
             userId == stringOrNull(value, "userId")
             status == stringOrNull(value, "sessionStatus")
             sessionStart == IF Field(value, "sessionStart").type = "number"
                               THEN Field(value, "sessionStart").value ELSE Null
             sessionEnd == IF Field(value, "sessionEnd").type = "number"
                             THEN Field(value, "sessionEnd").value ELSE Null
             lastUpdatedRaw == IF Field(value, "lastUpdated").type = "number"
                                 THEN Field(value, "lastUpdated").value ELSE sessionStart
         IN  IF version # SESSION_STORAGE_VERSION THEN NoMetadata
             ELSE IF workoutId = << >> \/ userId = << >> THEN NoMetadata
             ELSE [valid |-> TRUE,
                   version |-> version,
                   userId |-> userId,
                   workoutId |-> workoutId,
                   workoutName |-> stringOrNull(value, "workoutName"),
                   sessionStatus |-> IF status \in {<< "in_progress" >>, << "completed" >>}
                                       THEN status[1] ELSE "idle",
                   sessionStart |-> sessionStart,
                   sessionEnd |-> sessionEnd,
                   lastUpdated |-> IF lastUpdatedRaw # Null THEN lastUpdatedRaw ELSE nowMs]

readStoredSessions(storage, nowMs) ==
    LET readable(item) == item.key.prefixed /\ parseMetadata(item.value, nowMs).valid
        items == SelectSeq(storage, readable)
    IN  [i \in 1..Len(items) |->
            [key |-> items[i].key, metadata |-> parseMetadata(items[i].value, nowMs)]]

\* sessions.sort((a, b) => b.metadata.lastUpdated - a.metadata.lastUpdated), a stable sort
RECURSIVE sortByLastUpdated(_)
sortByLastUpdated(sessions) ==
    IF sessions = << >> THEN << >>
    ELSE LET rest == sortByLastUpdated(Tail(sessions))
             first == Head(sessions)
             ahead(entry) == entry.metadata.lastUpdated > first.metadata.lastUpdated
         IN  SelectSeq(rest, ahead) \o << first >> \o
             SelectSeq(rest, LAMBDA entry : ~ahead(entry))

NoSession == [key |-> [prefixed |-> FALSE, name |-> 0], metadata |-> NoMetadata]

\* variant: the status of the session is not looked at
findLatestSessionOfAnyStatus(storage, userId, maxAgeMs, nowMs) ==
    IF userId = << >> THEN NoSession
    ELSE LET mine(entry) == entry.metadata.userId = userId
             fresh(entry) == nowMs - entry.metadata.lastUpdated <= maxAgeMs
             sessions == sortByLastUpdated(
                           SelectSeq(SelectSeq(readStoredSessions(storage, nowMs), mine), fresh))
         IN  IF Len(sessions) > 0 THEN sessions[1] ELSE NoSession

findLatestActiveSession(storage, userId, maxAgeMs, nowMs) ==
    IF userId = << >> THEN NoSession
    ELSE LET mine(entry) == entry.metadata.userId = userId
             running(entry) == entry.metadata.sessionStatus = "in_progress"
             fresh(entry) == nowMs - entry.metadata.lastUpdated <= maxAgeMs
             sessions == sortByLastUpdated(
                           SelectSeq(SelectSeq(SelectSeq(readStoredSessions(storage, nowMs),
                                                         mine), running), fresh))
         IN  IF Len(sessions) > 0 THEN sessions[1] ELSE NoSession

NoCall == [made |-> FALSE, userId |-> << >>, maxAgeMs |-> 0, at |-> 0, result |-> NoSession]

NotFoundIdle ==
    [localStorage |-> << >>, userId |-> << >>, detected |-> FALSE,
     resumeWorkoutId |-> << >>, resumeWorkoutName |-> << >>, route |-> "*", call |-> NoCall]

ScanIdle == notFound = NotFoundIdle

\* the effect of NotFound on mount, after getSession answered
detectActiveSession ==
    /\ notFound.route = "*"
    /\ ~notFound.detected
    /\ LET entry == findLatestActiveSession(notFound.localStorage, notFound.userId,
                                            DefaultMaxAgeMs, now)
       IN  notFound' =
             [notFound EXCEPT
                !.detected = TRUE,
                !.resumeWorkoutId = IF notFound.userId # << >> /\ entry # NoSession
                                      THEN entry.metadata.workoutId ELSE @,
                !.resumeWorkoutName = IF notFound.userId # << >> /\ entry # NoSession
                                        THEN entry.metadata.workoutName ELSE @]
    /\ UNCHANGED << now, canBlock, stored, remote, page, timer, requests, finals, weightReqs,
                    toast, hist, db, workoutsPage, restCard, restored >>

\* the timeout of NotFound: navigate(`/execute/${resumeWorkoutId}`, { replace: true })
ResumeRedirect ==
    /\ notFound.route = "*"
    /\ notFound.resumeWorkoutId # << >>
    /\ notFound' = [notFound EXCEPT !.route = "/execute"]
    /\ UNCHANGED << now, canBlock, stored, remote, page, timer, requests, finals, weightReqs,
                    toast, hist, db, workoutsPage, restCard, restored >>

\* a caller of findLatestActiveSession with its own arguments
CallFindLatestActiveSession(userId, maxAgeMs) ==
    /\ notFound' =
         [notFound EXCEPT
            !.call = [made |-> TRUE, userId |-> userId, maxAgeMs |-> maxAgeMs, at |-> now,
                      result |-> findLatestActiveSession(notFound.localStorage, userId,
                                                         maxAgeMs, now)]]
    /\ UNCHANGED << now, canBlock, stored, remote, page, timer, requests, finals, weightReqs,
                    toast, hist, db, workoutsPage, restCard, restored >>

\* ------------------------------------------------------------------------
\* One exercise row of a session with any configured rest: initialize
\* normalises rest_seconds and creates the rest timer, set completions
\* restart or stop it, the one-second interval counts it down
\* ------------------------------------------------------------------------
MaxCardSets == 3

RestSecondsValues == { -5, 0, 1, 5, 9, 10, 11, 45, 60, 90 }

\* Number.isFinite(rawRest) && rawRest >= 0 ? rawRest : 60
normalizedRestSeconds(rawRest) == IF rawRest >= 0 THEN rawRest ELSE 60

RestCardIdle ==
    [raw |-> 60, sets |-> 1, initialized |-> FALSE, rest_seconds |-> 60, progress |-> 0,
     timer |-> createRestTimer(60), lastStep |-> "none"]

RestIdle == restCard = RestCardIdle

\* initialize, for the one row
initializeRestCard ==
    /\ ~restCard.initialized
    /\ LET rest == normalizedRestSeconds(restCard.raw)
       IN  restCard' = [restCard EXCEPT !.initialized = TRUE, !.rest_seconds = rest,
                                        !.progress = 0, !.timer = createRestTimer(rest),
                                        !.lastStep = "initialize"]
    /\ UNCHANGED << now, canBlock, stored, remote, page, timer, requests, finals, weightReqs,
                    toast, hist, db, workoutsPage, notFound, restored >>

\* handleCompleteSet with a successful insert, for the one row
completeSetOnCard ==
    /\ restCard.initialized
    /\ restCard.progress < restCard.sets
    /\ LET nextCount == restCard.progress + 1
       IN  restCard' =
             [restCard EXCEPT
                !.progress = nextCount,
                !.timer = IF nextCount < restCard.sets
                            THEN restartedRestTimer(restCard.timer, restCard.rest_seconds)
                            ELSE stoppedRestTimer(restCard.timer),
                !.lastStep = IF nextCount < restCard.sets THEN "restart" ELSE "stop"]
    /\ UNCHANGED << now, canBlock, stored, remote, page, timer, requests, finals, weightReqs,
                    toast, hist, db, workoutsPage, notFound, restored >>

\* the callback of setInterval(..., 1000) after deltaSeconds whole seconds
restCardInterval(deltaSeconds) ==
    /\ restCard.initialized
    /\ restCard.timer.active
    /\ restCard' = [restCard EXCEPT !.timer = applyDeltaToTimer(@, deltaSeconds),
                                    !.lastStep = "interval"]
    /\ UNCHANGED << now, canBlock, stored, remote, page, timer, requests, finals, weightReqs,
                    toast, hist, db, workoutsPage, notFound, restored >>

\* ------------------------------------------------------------------------
\* A snapshot as the persist effect writes it, read back some time later
\* ------------------------------------------------------------------------
NotRestored == [called |-> FALSE, secondsSinceUpdate |-> 0,
                restTimers |-> [e \in Exercises |-> createRestTimer(ExRestSeconds(e))]]

RestoreIdle ==
    restored = [sessionEnd |-> Null, lastUpdated |-> InitialNow, sessionStart |-> Null,
                restTimers |-> [e \in {} |-> 0], call |-> NotRestored]

\* the state of the session page and of the timer service before the page is opened
SessionIdle ==
    /\ stored = NoEntry
    /\ remote = [weight |-> [e \in Exercises |-> ExInitialWeight(e)]]
    /\ page = UnmountedPage
    /\ timer = InitialTimer
    /\ requests = {}
    /\ finals = << >>
    /\ weightReqs = {}
    /\ toast = "none"
    /\ hist = [mounts |-> 0, envSteps |-> 0, requested |-> 0, finalized |-> 0,
               sessLogs |-> ZeroProgress, sessLogVolume |-> 0, timerCall |-> "none",
               timerFrom |-> "idle"]

Init ==
    /\ now = InitialNow
    /\ canBlock \in BOOLEAN
    /\ SessionIdle
    /\ ImportIdle
    /\ ScanIdle
    /\ RestIdle
    /\ RestoreIdle

\* ------------------------------------------------------------------------
\* Derived values of a render
\* ------------------------------------------------------------------------
\* pendingExercises[0] ?? null
nextExercise(p) ==
    LET pending == {e \in Exercises : p.progressMap[e] < ExSets(e)}
    IN  IF pending = {} THEN Null ELSE CHOOSE e \in pending : \A f \in pending : e <= f

activeExercise(p) ==
    IF p.sessionStatus # "in_progress" THEN Null
    ELSE IF p.activeExerciseId = Null THEN nextExercise(p)
    ELSE p.activeExerciseId

focusExerciseId(p) ==
    IF p.sessionStatus = "in_progress"
      THEN (IF activeExercise(p) # Null THEN activeExercise(p) ELSE nextExercise(p))
      ELSE Null

\* variant: one finished exercise is enough
workoutFinishedByAny(p) == \E e \in Exercises : p.progressMap[e] >= ExSets(e)

workoutFinished(p) == Cardinality(Exercises) > 0 /\ nextExercise(p) = Null

canFinishWorkout(p) == Cardinality(Exercises) > 0 /\ p.sessionStatus # "idle"

\* variant: the override is not looked at
resolveWeightOfExercise(p, e) == p.exWeight[e]

resolveWeight(p, e) ==
    IF p.weightOverrides[e] # Null /\ p.weightOverrides[e] >= 0
      THEN p.weightOverrides[e]
      ELSE p.exWeight[e]

\* a modal AlertDialog is open: the rest of the page does not receive clicks
modalOpen(p) == p.confirmFinishOpen \/ p.exitPromptOpen

\* ------------------------------------------------------------------------
\* Effects
\* ------------------------------------------------------------------------
\* variant: the selection is kept when its exercise is finished
activeExerciseKept(p) == p

\* activeExerciseId reset effect
activeExerciseEffect(p) ==
    IF p.activeExerciseId # Null /\ p.progressMap[p.activeExerciseId] >= ExSets(p.activeExerciseId)
      THEN [p EXCEPT !.activeExerciseId = Null]
      ELSE p

\* navigation block effect, run when sessionStatus has changed
blockEffect(p, blockable) ==
    IF p.sessionStatus # "in_progress" \/ ~blockable
      THEN [p EXCEPT !.exitPromptOpen = FALSE, !.pendingNavigation = FALSE]
      ELSE [p EXCEPT !.pendingNavigation = FALSE]

\* syncTimer effect
syncEffect(t, p, nowMs) ==
    syncTimer(t, [status |-> p.sessionStatus, start |-> p.sessionStart, end |-> p.sessionEnd], nowMs)

Snapshot(p, nowMs) ==
    [present |-> TRUE,
     version |-> SESSION_STORAGE_VERSION,
     workoutId |-> CurrentWorkoutId,
     userId |-> CurrentUserId,
     sessionStart |-> p.sessionStart,
     sessionEnd |-> p.sessionEnd,
     sessionStatus |-> p.sessionStatus,
     sessionVolume |-> p.sessionVolume,
     progressMap |-> p.progressMap,
     weightOverrides |-> p.weightOverrides,
     restTimers |-> p.restTimers,
     lastUpdated |-> nowMs,
     activeExerciseId |-> p.activeExerciseId]

\* variant: nothing is written before a set has been counted
persistEffectAfterFirstSet(p, st, nowMs) ==
    IF p.sessionStart = Null \/ p.progressMap = ZeroProgress THEN st ELSE Snapshot(p, nowMs)

\* persist effect: st is the entry the handler left behind
persistEffect(p, st, nowMs) ==
    IF p.sessionStart = Null THEN st ELSE Snapshot(p, nowMs)

\* ------------------------------------------------------------------------
\* Mount: initialize() followed by the hydration effect and the effects of
\* the render that follows it
\* ------------------------------------------------------------------------
\* state set by initialize() for the rows read from the remote store
initializedPage(inst, exWeight, nowMs) ==
    [UnmountedPage EXCEPT
        !.mounted = TRUE,
        !.inst = inst,
        !.exWeight = exWeight,
        !.weightOverrides = [e \in Exercises |-> DefaultWeight(e, exWeight[e])],
        !.restTickRef = nowMs]

normalizedStatus(parsed) ==
    IF parsed.sessionStatus \in {"in_progress", "completed", "idle"}
      THEN parsed.sessionStatus
      ELSE IF parsed.sessionStart # Null /\ parsed.sessionStart # 0
        THEN (IF parsed.sessionEnd # Null /\ parsed.sessionEnd # 0 THEN "completed" ELSE "in_progress")
        ELSE "idle"

secondsSinceUpdate(parsed, nowMs) ==
    LET lastUpdated == IF parsed.lastUpdated # Null THEN parsed.lastUpdated
                       ELSE IF parsed.sessionStart # Null THEN parsed.sessionStart
                       ELSE nowMs
    IN  IF parsed.sessionEnd # Null THEN 0
        ELSE Max(0, FloorSeconds(nowMs - lastUpdated))

\* the hydration effect: the page state and the stored entry it leaves.
\* setSessionElapsed is not declared in the component: calling it throws a
\* ReferenceError, which the catch block answers by removing the entry.
hydrate(p, parsed, nowMs) ==
    IF ~parsed.present
      THEN [page |-> p, stored |-> parsed]
    ELSE IF \/ parsed.version # SESSION_STORAGE_VERSION
            \/ parsed.userId # CurrentUserId
            \/ parsed.workoutId # CurrentWorkoutId
      THEN [page |-> p, stored |-> NoEntry]
    ELSE IF parsed.sessionStart # Null
      THEN [page |-> [p EXCEPT !.sessionStart = parsed.sessionStart],
            stored |-> NoEntry]
    ELSE [page |-> [p EXCEPT
                      !.sessionEnd = parsed.sessionEnd,
                      !.sessionVolume = parsed.sessionVolume,
                      !.progressMap = sanitizeProgressMapState(parsed.progressMap),
                      !.weightOverrides =
                          sanitizeWeightOverridesState(parsed.weightOverrides, p.exWeight),
                      !.restTimers =
                          sanitizeRestTimersState(parsed.restTimers,
                                                  secondsSinceUpdate(parsed, nowMs)),
                      !.activeExerciseId = parsed.activeExerciseId,
                      !.sessionStatus = normalizedStatus(parsed)],
          stored |-> parsed]

Mount ==
    /\ ~page.mounted
    /\ hist.mounts > 0 => hist.envSteps < MaxEnvSteps
    /\ LET h == hydrate(initializedPage(hist.mounts + 1, remote.weight, now), stored, now)
           p == blockEffect(activeExerciseEffect(h.page), canBlock)
       IN  /\ page' = p
           /\ timer' = syncEffect(timer, p, now)
           /\ stored' = persistEffect(p, h.stored, now)
    /\ hist' = [hist EXCEPT !.mounts = @ + 1,
                            !.envSteps = IF hist.mounts > 0 THEN @ + 1 ELSE @,
                            !.sessLogs = ZeroProgress, !.sessLogVolume = 0]
    /\ toast' = Toast("none")
    /\ UNCHANGED << libVars, now, canBlock, remote, requests, finals, weightReqs >>

\* ------------------------------------------------------------------------
\* Leaving the page
\* ------------------------------------------------------------------------
\* a navigation reaching the router: intercepted by the page's blocker, or
\* performed, which unmounts the page (cleanup: resetTimer)
navigate(p, t, blockable) ==
    IF ~p.mounted
      THEN [page |-> p, timer |-> t]
    ELSE IF blockable /\ p.sessionStatus = "in_progress"
      THEN [page |-> [p EXCEPT !.pendingNavigation = TRUE, !.exitPromptOpen = TRUE],
            timer |-> t]
    ELSE [page |-> UnmountedPage, timer |-> resetTimer(t)]

\* a link, the back button: possible whether or not a dialog is open
NavigateAway ==
    /\ page.mounted
    /\ LET n == navigate(page, timer, canBlock)
       IN  page' = n.page /\ timer' = n.timer
    /\ toast' = Toast("none")
    /\ UNCHANGED << libVars, now, canBlock, stored, remote, requests, finals, weightReqs, hist >>

\* next?.() retries the intercepted navigation, if one is pending
handleConfirmNavigationExit ==
    /\ page.mounted
    /\ page.exitPromptOpen
    /\ IF page.pendingNavigation
         THEN page' = UnmountedPage /\ timer' = resetTimer(timer)
         ELSE page' = [page EXCEPT !.exitPromptOpen = FALSE] /\ timer' = timer
    /\ toast' = Toast("none")
    /\ UNCHANGED << libVars, now, canBlock, stored, remote, requests, finals, weightReqs, hist >>

handleCancelNavigationExit ==
    /\ page.mounted
    /\ page.exitPromptOpen
    /\ page' = [page EXCEPT !.exitPromptOpen = FALSE, !.pendingNavigation = FALSE]
    /\ toast' = Toast("none")
    /\ UNCHANGED << libVars, now, canBlock, stored, remote, timer, requests, finals, weightReqs, hist >>

\* ------------------------------------------------------------------------
\* Session operations
\* ------------------------------------------------------------------------
\* variant: a completed session can be started again
handleStartWorkoutUnlessRunning ==
    /\ page.mounted
    /\ ~modalOpen(page)
    /\ page.sessionStatus # "in_progress"
    /\ Cardinality(Exercises) # 0
    /\ LET p1 == [page EXCEPT !.sessionStart = now, !.sessionEnd = Null,
                              !.sessionStatus = "in_progress"]
           p == blockEffect(p1, canBlock)
       IN  /\ page' = p
           /\ timer' = syncEffect(startTimer(timer, now, now), p, now)
           /\ stored' = persistEffect(p, stored, now)
    /\ toast' = Toast("none")
    /\ UNCHANGED << libVars, now, canBlock, remote, requests, finals, weightReqs, hist >>

handleStartWorkout ==
    /\ page.mounted
    /\ ~modalOpen(page)
    /\ page.sessionStatus = "idle"
    /\ Cardinality(Exercises) # 0
    /\ LET p1 == [page EXCEPT !.sessionStart = now, !.sessionEnd = Null,
                              !.sessionStatus = "in_progress"]
           p == blockEffect(p1, canBlock)
       IN  /\ page' = p
           /\ timer' = syncEffect(startTimer(timer, now, now), p, now)
           /\ stored' = persistEffect(p, stored, now)
    /\ toast' = Toast("none")
    /\ UNCHANGED << libVars, now, canBlock, remote, requests, finals, weightReqs, hist >>

live(r) == page.mounted /\ r.inst = page.inst

\* variant: only an idle session rejects the request
acceptsSetsUnlessIdle(p) == p.sessionStatus # "idle"

\* sessionStatus !== "in_progress" rejects the request
acceptsSets(p) == p.sessionStatus = "in_progress"

\* variant: the saving flag is not consulted
hasCapacityIgnoringSaving(p, e) == p.progressMap[e] < ExSets(e)

\* currentCount >= exercise.sets || saving[exerciseId] ignores the request
hasCapacity(p, e) == p.progressMap[e] < ExSets(e) /\ ~p.saving[e]

\* handleCompleteSet up to its await
handleCompleteSet(e) ==
    /\ page.mounted
    /\ ~modalOpen(page)
    /\ IF ~acceptsSets(page)
         THEN /\ toast' = Toast("Comece o treino")
              /\ UNCHANGED << page, stored, requests, hist >>
       ELSE IF ~hasCapacity(page, e)
         THEN /\ toast' = Toast("none")
              /\ UNCHANGED << page, stored, requests, hist >>
       ELSE LET currentCount == page.progressMap[e]
                planEntry == PlanEntry(e, currentCount)
                p1 == [page EXCEPT !.progressMap[e] = currentCount + 1,
                                   !.saving[e] = TRUE]
                p == activeExerciseEffect(p1)
            IN  /\ page' = p
                /\ stored' = persistEffect(p, stored, now)
                /\ requests' = requests \cup
                      {[inst |-> page.inst, ex |-> e, currentCount |-> currentCount,
                        weight |-> resolveWeight(page, e),
                        reps |-> IF planEntry.reps # Null THEN planEntry.reps ELSE ExReps(e),
                        exWeight |-> page.exWeight[e]]}
                /\ hist.requested < MaxRequests
                /\ hist' = [hist EXCEPT !.requested = @ + 1]
                /\ toast' = Toast("none")
    /\ UNCHANGED << libVars, now, canBlock, remote, timer, finals, weightReqs >>

\* persistExerciseWeight up to its await: the update requests it adds
persistExerciseWeight(inst, e, nextWeight, previousWeight) ==
    IF nextWeight - previousWeight < WeightEpsilon /\ previousWeight - nextWeight < WeightEpsilon
      THEN {}
      ELSE {[inst |-> inst, ex |-> e, weight |-> nextWeight]}

\* variant: the timer is armed but one second is already gone
restTimerAfterSetShort(current, e, nextCount) ==
    IF nextCount < ExSets(e)
      THEN [current EXCEPT !.active = TRUE, !.remaining = current.duration - 1]
      ELSE [current EXCEPT !.active = FALSE, !.remaining = current.duration]

\* the rest timer of e after a successful completion
restTimerAfterSet(current, e, nextCount) ==
    IF nextCount < ExSets(e)
      THEN restartedRestTimer(current, ExRestSeconds(e))
      ELSE stoppedRestTimer(current)

\* the weight override of e after a successful completion
weightAfterSet(current, e, nextCount) ==
    IF nextCount < ExSets(e) /\ PlanEntry(e, nextCount).weight # Null
      THEN PlanEntry(e, nextCount).weight
      ELSE current

\* the insert succeeded: the row exists and handleCompleteSet resumes
InsertOk(r) ==
    /\ r \in requests
    /\ requests' = requests \ {r}
    /\ weightReqs' = weightReqs \cup persistExerciseWeight(r.inst, r.ex, r.weight, r.exWeight)
    /\ hist' = IF r.inst = hist.mounts
                 THEN [hist EXCEPT !.sessLogs[r.ex] = @ + 1,
                                   !.sessLogVolume = @ + r.weight * r.reps]
                 ELSE hist
    /\ toast' = Toast(IF r.currentCount + 1 = ExSets(r.ex) THEN "Exercicio concluido" ELSE "none")
    /\ IF live(r)
         THEN LET e == r.ex
                  nextCount == r.currentCount + 1
                  p == [page EXCEPT
                          !.saving[e] = FALSE,
                          !.sessionVolume = @ + r.weight * r.reps,
                          !.restTimers[e] = restTimerAfterSet(@, e, nextCount),
                          !.weightOverrides[e] = weightAfterSet(@, e, nextCount)]
              IN  /\ page' = p
                  /\ stored' = persistEffect(p, stored, now)
         ELSE UNCHANGED << page, stored >>
    /\ UNCHANGED << libVars, now, canBlock, remote, timer, finals >>

\* variant: the rollback also drops the counts of the other exercises that
\* are not logged yet
rolledBackToRender(progress, r) ==
    [e \in Exercises |-> IF e = r.ex THEN r.currentCount ELSE Min(progress[e], hist.sessLogs[e])]

\* variant: the optimistic count is kept
notRolledBack(progress, r) == progress

\* setProgressMap({...previous, [exerciseId]: currentCount}) of the error branch
rolledBack(progress, r) == [progress EXCEPT ![r.ex] = r.currentCount]

\* the insert failed: no row, handleCompleteSet rolls back
InsertFail(r) ==
    /\ r \in requests
    /\ requests' = requests \ {r}
    /\ IF live(r)
         THEN LET p == [page EXCEPT !.saving[r.ex] = FALSE,
                                    !.progressMap = rolledBack(@, r)]
              IN  /\ page' = p
                  /\ stored' = persistEffect(p, stored, now)
                  /\ toast' = Toast("Erro ao registrar")
         ELSE /\ toast' = Toast("Erro ao registrar")
              /\ UNCHANGED << page, stored >>
    /\ UNCHANGED << libVars, now, canBlock, remote, timer, finals, weightReqs, hist >>

\* the exercises.update({weight}) of persistExerciseWeight returned
WeightRespond(w, ok) ==
    /\ w \in weightReqs
    /\ weightReqs' = weightReqs \ {w}
    /\ remote' = IF ok THEN [remote EXCEPT !.weight[w.ex] = w.weight] ELSE remote
    /\ page' = IF ok /\ live(w) THEN [page EXCEPT !.exWeight[w.ex] = w.weight] ELSE page
    /\ toast' = Toast("none")
    /\ UNCHANGED << libVars, now, canBlock, stored, timer, requests, finals, hist >>

\* ------------------------------------------------------------------------
\* Rest timers: the shared 1-second interval and the visibility catch-up
\* ------------------------------------------------------------------------
\* the body shared by the interval callback and the visibility handler:
\* whole seconds since restTickRef are charged to every active timer
restCatchUp(p, nowMs) ==
    LET elapsedSeconds == FloorSeconds(nowMs - p.restTickRef)
    IN  [p EXCEPT !.restTickRef = nowMs,
                  !.restTimers = applyRestTimerDelta(p.restTimers, elapsedSeconds)]

\* the callback of setInterval(..., 1000)
RestInterval ==
    /\ page.mounted
    /\ now - page.restTickRef >= MsPerSecond
    /\ page' = restCatchUp(page, now)
    /\ stored' = IF page'.restTimers # page.restTimers
                   THEN persistEffect(page', stored, now) ELSE stored
    /\ toast' = Toast("none")
    /\ UNCHANGED << libVars, now, canBlock, remote, timer, requests, finals, weightReqs, hist >>

\* document visibilitychange, the page being visible again
handleVisibilityChange ==
    /\ page.mounted
    /\ now - page.restTickRef >= MsPerSecond
    /\ page' = restCatchUp(page, now)
    /\ stored' = IF page'.restTimers # page.restTimers
                   THEN persistEffect(page', stored, now) ELSE stored
    /\ toast' = Toast("none")
    /\ UNCHANGED << libVars, now, canBlock, remote, timer, requests, finals, weightReqs, hist >>

\* ------------------------------------------------------------------------
\* Weight and focus controls
\* ------------------------------------------------------------------------
handleAdjustWeight(e, delta) ==
    /\ page.mounted
    /\ ~modalOpen(page)
    /\ page.progressMap[e] < ExSets(e)
    /\ ~page.saving[e]
    /\ hist.envSteps < MaxEnvSteps
    /\ LET current == IF page.weightOverrides[e] # Null THEN page.weightOverrides[e]
                      ELSE page.exWeight[e]
           p == [page EXCEPT !.weightOverrides[e] = Max(0, Round2(current + delta))]
       IN  /\ page' = p
           /\ stored' = persistEffect(p, stored, now)
    /\ hist' = [hist EXCEPT !.envSteps = @ + 1]
    /\ toast' = Toast("none")
    /\ UNCHANGED << libVars, now, canBlock, remote, timer, requests, finals, weightReqs >>

\* the focus Select: an exercise with sets remaining, or Null for "__auto__"
SelectExercise(v) ==
    /\ page.mounted
    /\ ~modalOpen(page)
    /\ page.sessionStatus = "in_progress"
    /\ nextExercise(page) # Null
    /\ v # Null => page.progressMap[v] < ExSets(v)
    /\ v # page.activeExerciseId
    /\ LET p == activeExerciseEffect([page EXCEPT !.activeExerciseId = v])
       IN  /\ page' = p
           /\ stored' = persistEffect(p, stored, now)
    /\ toast' = Toast("none")
    /\ UNCHANGED << libVars, now, canBlock, remote, timer, requests, finals, weightReqs, hist >>

\* ------------------------------------------------------------------------
\* Finishing
\* ------------------------------------------------------------------------
\* the updates persistPendingWeightOverrides issues: exercise -> weight
pendingWeightTasks(p) ==
    LET normalized(e) == Max(0, Round2(p.weightOverrides[e]))
        differs(e) == \/ normalized(e) - p.exWeight[e] >= WeightEpsilon
                      \/ p.exWeight[e] - normalized(e) >= WeightEpsilon
        tasks == {e \in Exercises : p.weightOverrides[e] # Null /\ differs(e)}
    IN  [e \in tasks |-> normalized(e)]

\* finalizeWorkout after its await.  f is the call: the page instance that
\* made it, the sessionEnd of its closure and its update tasks; okTasks are
\* the tasks whose update succeeded.
finalizeResume(f, okTasks, p0, st0) ==
    LET isLive == p0.mounted /\ f.inst = p0.inst
        finalEnd == IF f.sessionEnd # Null THEN f.sessionEnd ELSE now
        p1 == IF isLive
                THEN [p0 EXCEPT !.exWeight = [e \in Exercises |->
                                     IF e \in okTasks THEN f.tasks[e] ELSE @[e]],
                                !.sessionStatus = "completed",
                                !.sessionEnd = finalEnd]
                ELSE p0
        t1 == finishTimer(timer, finalEnd, now)
        \* navigate("/dashboard") meets the blocker registered by the last render
        n == navigate(p0, t1, canBlock)
        stays == n.page.mounted
        p2 == IF stays
                THEN (IF isLive
                        THEN blockEffect([p1 EXCEPT !.pendingNavigation = n.page.pendingNavigation,
                                                    !.exitPromptOpen = n.page.exitPromptOpen],
                                         canBlock)
                        ELSE n.page)
                ELSE n.page
        t2 == IF stays /\ isLive THEN syncEffect(n.timer, p2, now) ELSE n.timer
    IN  [page |-> p2,
         timer |-> t2,
         stored |-> IF stays /\ isLive THEN persistEffect(p2, NoEntry, now) ELSE NoEntry,
         remoteWeight |-> [e \in Exercises |->
                              IF e \in okTasks THEN f.tasks[e] ELSE remote.weight[e]]]

\* finalizeWorkout up to its await: with no update to wait for it resumes at once
finalizeWorkout(p0) ==
    LET tasks == pendingWeightTasks(p0)
        f == [inst |-> p0.inst, sessionEnd |-> p0.sessionEnd, tasks |-> tasks]
    IN  /\ hist.finalized < MaxFinals
        /\ hist' = [hist EXCEPT !.finalized = @ + 1]
        /\ IF DOMAIN tasks = {}
          THEN LET r == finalizeResume(f, {}, p0, stored)
               IN  /\ page' = r.page
                   /\ timer' = r.timer
                   /\ stored' = r.stored
                   /\ toast' = Toast("Treino finalizado")
                   /\ UNCHANGED << finals, remote >>
          ELSE /\ finals' = Append(finals, f)
               /\ page' = p0
               /\ toast' = Toast("none")
               /\ UNCHANGED << timer, stored, remote >>

handleFinishWorkoutRequest ==
    /\ page.mounted
    /\ ~modalOpen(page)
    /\ canFinishWorkout(page)
    /\ IF ~workoutFinished(page)
         THEN /\ page' = [page EXCEPT !.confirmFinishOpen = TRUE]
              /\ toast' = Toast("none")
              /\ UNCHANGED << timer, stored, remote, finals, hist >>
         ELSE finalizeWorkout(page)
    /\ UNCHANGED << libVars, now, canBlock, requests, weightReqs >>

handleForceFinish ==
    /\ page.mounted
    /\ page.confirmFinishOpen
    /\ finalizeWorkout([page EXCEPT !.confirmFinishOpen = FALSE])
    /\ UNCHANGED << libVars, now, canBlock, requests, weightReqs >>

\* AlertDialogCancel of the finish prompt
CancelFinish ==
    /\ page.mounted
    /\ page.confirmFinishOpen
    /\ page' = [page EXCEPT !.confirmFinishOpen = FALSE]
    /\ toast' = Toast("none")
    /\ UNCHANGED << libVars, now, canBlock, stored, remote, timer, requests, finals, weightReqs, hist >>

\* the updates of persistPendingWeightOverrides returned
FinalizeResume(i, okTasks) ==
    /\ i \in DOMAIN finals
    /\ okTasks \subseteq DOMAIN finals[i].tasks
    /\ LET r == finalizeResume(finals[i], okTasks, page, stored)
       IN  /\ page' = r.page
           /\ timer' = r.timer
           /\ stored' = r.stored
           /\ remote' = [remote EXCEPT !.weight = r.remoteWeight]
    /\ finals' = [j \in 1..(Len(finals) - 1) |-> IF j < i THEN finals[j] ELSE finals[j + 1]]
    /\ toast' = Toast("Treino finalizado")
    /\ UNCHANGED << libVars, now, canBlock, requests, weightReqs, hist >>

\* ------------------------------------------------------------------------
\* Clock and ticker
\* ------------------------------------------------------------------------
Tick(d) ==
    /\ hist.envSteps < MaxEnvSteps
    /\ now' = now + d
    /\ hist' = [hist EXCEPT !.envSteps = @ + 1]
    /\ toast' = Toast("none")
    /\ UNCHANGED << libVars, canBlock, stored, remote, page, timer, requests, finals, weightReqs >>

\* the interval of tickFrom fires
TimerTick ==
    /\ \E iv \in timer.intervals :
          /\ timer.elapsedSeconds # tickCompute(iv.start, now)
          /\ timer' = [timer EXCEPT !.elapsedSeconds = tickCompute(iv.start, now)]
    /\ toast' = Toast("none")
    /\ UNCHANGED << libVars, now, canBlock, stored, remote, page, requests, finals, weightReqs, hist >>

Next ==
    \/ Mount
    \/ NavigateAway
    \/ handleConfirmNavigationExit
    \/ handleCancelNavigationExit
    \/ handleStartWorkout
    \/ \E e \in Exercises : handleCompleteSet(e)
    \/ \E r \in requests : InsertOk(r)
    \/ \E r \in requests : InsertFail(r)
    \/ \E w \in weightReqs, ok \in BOOLEAN : WeightRespond(w, ok)
    \/ RestInterval
    \/ handleVisibilityChange
    \/ \E e \in Exercises, delta \in {-1000, 1000} : handleAdjustWeight(e, delta)
    \/ \E v \in Exercises \cup {Null} : SelectExercise(v)
    \/ handleFinishWorkoutRequest
    \/ handleForceFinish
    \/ CancelFinish
    \/ \E i \in DOMAIN finals : \E okTasks \in SUBSET (DOMAIN finals[i].tasks) : FinalizeResume(i, okTasks)
    \/ \E d \in ClockSteps : Tick(d)
    \/ TimerTick

Spec == Init /\ [][Next]_vars

\* ------------------------------------------------------------------------
\* The timer service on its own: a consumer of the context calls its four
\* functions directly, with any argument, while the clock advances
\* ------------------------------------------------------------------------
TimerStamps == {1, InitialNow, InitialNow + 1}

Payloads ==
    [status : {"idle", "in_progress", "completed"},
     start : TimerStamps \cup {Null, 0},
     end : TimerStamps \cup {Null}]

CallStartTimer(ts) ==
    /\ timer.mounted
    /\ timer' = startTimer(timer, ts, now)
    /\ hist' = [hist EXCEPT !.timerCall = "start", !.timerFrom = timer.status]
    /\ UNCHANGED << libVars, now, canBlock, stored, remote, page, requests, finals, weightReqs, toast >>

CallFinishTimer(ts) ==
    /\ timer.mounted
    /\ timer' = finishTimer(timer, ts, now)
    /\ hist' = [hist EXCEPT !.timerCall = "finish", !.timerFrom = timer.status]
    /\ UNCHANGED << libVars, now, canBlock, stored, remote, page, requests, finals, weightReqs, toast >>

CallResetTimer ==
    /\ timer.mounted
    /\ timer' = resetTimer(timer)
    /\ hist' = [hist EXCEPT !.timerCall = "reset", !.timerFrom = timer.status]
    /\ UNCHANGED << libVars, now, canBlock, stored, remote, page, requests, finals, weightReqs, toast >>

CallSyncTimer(payload) ==
    /\ timer.mounted
    /\ timer' = syncTimer(timer, payload, now)
    /\ hist' = [hist EXCEPT !.timerCall = "sync", !.timerFrom = timer.status]
    /\ UNCHANGED << libVars, now, canBlock, stored, remote, page, requests, finals, weightReqs, toast >>

\* the cleanup of the provider's effect: the application is torn down
ProviderUnmount ==
    /\ timer.mounted
    /\ timer' = [clearTicker(timer) EXCEPT !.mounted = FALSE]
    /\ hist' = [hist EXCEPT !.timerCall = "unmount", !.timerFrom = timer.status]
    /\ UNCHANGED << libVars, now, canBlock, stored, remote, page, requests, finals, weightReqs, toast >>

NextTimer ==
    \/ \E ts \in TimerStamps \cup {Null} : CallStartTimer(ts)
    \/ \E ts \in TimerStamps \cup {Null} : CallFinishTimer(ts)
    \/ CallResetTimer
    \/ ProviderUnmount
    \/ \E payload \in Payloads : CallSyncTimer(payload)
    \/ \E d \in ClockSteps \cup {1} : Tick(d)
    \/ TimerTick

SpecTimer == Init /\ [][NextTimer]_vars

\* ------------------------------------------------------------------------
\* The Workouts page on its own, for any row of the template catalogue
\* ------------------------------------------------------------------------
InitImport ==
    /\ now = InitialNow
    /\ canBlock = FALSE
    /\ SessionIdle
    /\ \E row \in RawTemplateRows :
          db = [session |-> TRUE, workout_templates |-> << row >>,
                workouts |-> << >>, exercises |-> << >>]
    /\ workoutsPage = WorkoutsPageIdle
    /\ ScanIdle
    /\ RestIdle
    /\ RestoreIdle

NextImport ==
    \/ \E ok \in BOOLEAN : fetchTemplates(ok)
    \/ SessionExpires
    \/ \E t \in DOMAIN workoutsPage.templates, workoutOk \in BOOLEAN, exercisesOk \in BOOLEAN :
          handleImportTemplate(t, workoutOk, exercisesOk)

SpecImport == InitImport /\ [][NextImport]_vars

\* ------------------------------------------------------------------------
\* The scan of the stored sessions on its own, for any content of the
\* browser storage, any signed-in user and any time of day
\* ------------------------------------------------------------------------
Storages ==
    { items \in SeqsUpTo(StoredItems, MaxStoredKeys) :
        \A i, j \in DOMAIN items : i # j => items[i].key # items[j].key }

InitScan ==
    /\ canBlock = FALSE
    /\ SessionIdle
    /\ now \in ScanTimes
    /\ ImportIdle
    /\ \E items \in Storages, userId \in UserIds \cup { << >> } :
          notFound = [NotFoundIdle EXCEPT !.localStorage = items, !.userId = userId]
    /\ RestIdle
    /\ RestoreIdle

NextScan ==
    \/ detectActiveSession
    \/ ResumeRedirect
    \/ \E userId \in UserIds \cup { << >> }, maxAgeMs \in { 0, HourMs, DefaultMaxAgeMs } :
          CallFindLatestActiveSession(userId, maxAgeMs)

SpecScan == InitScan /\ [][NextScan]_vars

\* ------------------------------------------------------------------------
\* One exercise row on its own, for any configured rest
\* ------------------------------------------------------------------------
InitRest ==
    /\ now = InitialNow
    /\ canBlock = FALSE
    /\ SessionIdle
    /\ ImportIdle
    /\ ScanIdle
    /\ \E raw \in RestSecondsValues, sets \in 1..MaxCardSets :
          restCard = [RestCardIdle EXCEPT !.raw = raw, !.sets = sets]
    /\ RestoreIdle

NextRest ==
    \/ initializeRestCard
    \/ completeSetOnCard
    \/ \E deltaSeconds \in { 1, 7 } : restCardInterval(deltaSeconds)

SpecRest == InitRest /\ [][NextRest]_vars

\* ------------------------------------------------------------------------
\* The rest-timer sanitizer on its own, for any rest timers a snapshot of
\* the page can hold (remaining within 0..duration, active only above 0),
\* with or without an end timestamp, read back at any later time
\* ------------------------------------------------------------------------
StoredRemaining == { 0, 1, 3, 4, 10, 59, 60 }

StoredTimers(e) ==
    { t \in [duration : { createRestTimer(ExRestSeconds(e)).duration },
              remaining : StoredRemaining, active : BOOLEAN] :
        /\ t.remaining <= t.duration
        /\ t.active => t.remaining > 0 }

StoredRestTimers ==
    UNION { { raw \in [held -> UNION { StoredTimers(e) : e \in held }] :
                \A e \in held : raw[e] \in StoredTimers(e) } : held \in SUBSET Exercises }

\* the hydration effect's call, with the secondsSinceUpdate it computes
CallSanitizeRestTimersState ==
    /\ ~restored.call.called
    /\ LET elapsed == secondsSinceUpdate(restored, now)
       IN  restored' = [restored EXCEPT !.call =
                          [called |-> TRUE, secondsSinceUpdate |-> elapsed,
                           restTimers |-> sanitizeRestTimersState(restored.restTimers, elapsed)]]
    /\ UNCHANGED << now, canBlock, stored, remote, page, timer, requests, finals, weightReqs,
                    toast, hist, db, workoutsPage, notFound, restCard >>

\* time passes while the snapshot lies in storage
AwayFor(d) ==
    /\ ~restored.call.called
    /\ now < InitialNow + 2 * 10000
    /\ now' = now + d
    /\ UNCHANGED << canBlock, stored, remote, page, timer, requests, finals, weightReqs,
                    toast, hist, libVars >>

InitSanitize ==
    /\ now = InitialNow
    /\ canBlock = FALSE
    /\ SessionIdle
    /\ ImportIdle
    /\ ScanIdle
    /\ RestIdle
    /\ \E raw \in StoredRestTimers, sessionEnd \in { Null, InitialNow } :
          restored = [sessionEnd |-> sessionEnd, lastUpdated |-> InitialNow,
                      sessionStart |-> 1, restTimers |-> raw, call |-> NotRestored]

NextSanitize ==
    \/ CallSanitizeRestTimersState
    \/ \E d \in ClockSteps \cup { 999 } : AwayFor(d)

SpecSanitize == InitSanitize /\ [][NextSanitize]_vars

\* ------------------------------------------------------------------------
\* Properties of the set-logging pipeline
\* ------------------------------------------------------------------------
\* the insert requests of the mounted page instance for exercise e
liveRequests(e) == {r \in requests : live(r) /\ r.ex = e}

\* C1: while the page is mounted the completed-count of every exercise is
\* within 0..sets and equals the number of log rows of this session plus the
\* one optimistic increment of a request still in flight: every successful
\* insert is worth exactly one, a failed one nothing, and with no request in
\* flight the count equals the rows appended.
C1_CountMatchesLogRows ==
    page.mounted =>
      \A e \in Exercises :
        /\ page.progressMap[e] \in 0..ExSets(e)
        /\ page.progressMap[e] = hist.sessLogs[e] + Cardinality(liveRequests(e))

\* every set of the first exercise is logged and nothing is in flight
C1_Witness ==
    /\ page.mounted
    /\ requests = {}
    /\ hist.sessLogs[1] = ExSets(1)
    /\ page.progressMap[1] = ExSets(1)

\* C2: a complete-set request made while the session is idle or completed
\* shows the error and changes nothing: no insert is issued and progress,
\* saving flags, volume, rest timers and weight overrides stay as they were.
C2_RejectedOutsideSession ==
    [][\A e \in Exercises :
         (handleCompleteSet(e) /\ page.sessionStatus \in {"idle", "completed"}) =>
           /\ toast' = "Comece o treino"
           /\ requests' = requests
           /\ hist'.requested = hist.requested
           /\ page'.progressMap = page.progressMap
           /\ page'.saving = page.saving
           /\ page'.sessionVolume = page.sessionVolume
           /\ page'.restTimers = page.restTimers
           /\ page'.weightOverrides = page.weightOverrides]_vars

\* the error is showing on a page whose session is completed
C2_Witness ==
    /\ page.mounted
    /\ page.sessionStatus = "completed"
    /\ toast = "Comece o treino"

\* C3 as stated: at no time are two insert requests for one exercise in flight
C3_OneInFlightAtAnyTime ==
    \A e \in Exercises : Cardinality({r \in requests : r.ex = e}) <= 1

\* C3, amended: of the requests issued by the mounted page instance at most
\* one per exercise is in flight, one is in flight exactly when the saving
\* flag of the exercise is set, and a complete-set request made while the
\* flag is set issues nothing and changes nothing.
C3_OneInFlightPerInstance ==
    /\ [](page.mounted =>
            \A e \in Exercises :
              /\ Cardinality(liveRequests(e)) <= 1
              /\ page.saving[e] <=> liveRequests(e) # {})
    /\ [][\A e \in Exercises :
            (handleCompleteSet(e) /\ page.saving[e]) =>
              requests' = requests /\ page' = page /\ stored' = stored]_vars

\* a request of the mounted instance is in flight next to one of an earlier
\* instance for the same exercise
C3_Witness ==
    /\ page.mounted
    /\ \E r \in requests, o \in requests :
          live(r) /\ ~live(o) /\ o.ex = r.ex /\ page.saving[r.ex]

\* C4: when the insert of the mounted instance fails the count goes back by
\* the one optimistic increment, the saving flag is cleared, volume, rest
\* timers and weight overrides are untouched, and only a complete-set request
\* ever adds an insert request.
C4_FailureRollsBack ==
    [][/\ \A r \in requests :
            (InsertFail(r) /\ live(r)) =>
              /\ page'.progressMap = [page.progressMap EXCEPT ![r.ex] = @ - 1]
              /\ page'.progressMap[r.ex] = hist.sessLogs[r.ex]
              /\ ~page'.saving[r.ex]
              /\ page'.sessionVolume = page.sessionVolume
              /\ page'.restTimers = page.restTimers
              /\ page'.weightOverrides = page.weightOverrides
              /\ requests' = requests \ {r}
       /\ ~(requests' \subseteq requests) => \E e \in Exercises : handleCompleteSet(e)
      ]_vars

\* a failure has just been reported after an earlier set was logged
C4_Witness ==
    /\ page.mounted
    /\ toast = "Erro ao registrar"
    /\ page.progressMap[1] = 1
    /\ hist.sessLogs[1] = 1
    /\ ~page.saving[1]


\* ------------------------------------------------------------------------
\* Properties of the timer service
\* ------------------------------------------------------------------------
\* a completed payload that leaves the end to be stamped by syncTimer
stampsEnd(payload) ==
    payload.status = "completed" /\ ~Falsy(payload.start) /\ payload.end = Null

\* the clock readings of a call made right after another one
RightAfter == {now, now + 1}

\* C5 as stated: in every timer state, for every payload, a second sync with
\* the same payload right after the first changes nothing of the timer.
C5_SecondSyncChangesNothing ==
    \A payload \in Payloads : \A later \in RightAfter :
        LET t1 == syncTimer(timer, payload, now)
        IN  syncTimer(t1, payload, later) = t1

\* C5, amended: the second sync changes nothing (status, elapsed value,
\* ticker and references) when the clock reads the same millisecond or the
\* payload does not leave a completed end to be stamped; and a sync with the
\* timer's own current {status, start, end} changes nothing at any time.
C5_SyncIdempotent ==
    /\ \A payload \in Payloads :
          LET t1 == syncTimer(timer, payload, now)
          IN  /\ syncTimer(t1, payload, now) = t1
              /\ ~stampsEnd(payload) =>
                    \A later \in RightAfter : syncTimer(t1, payload, later) = t1
    /\ \A later \in RightAfter : syncTimer(timer, timer.snapshot, later) = timer

\* after a sync the ticker runs and the displayed value lags the clock, so a
\* recomputation would show
C5_Witness ==
    /\ hist.timerCall = "sync"
    /\ timer.status = "in_progress"
    /\ timer.ticker # Null
    /\ timer.elapsedSeconds # tickCompute(timer.ticker, now)

\* ------------------------------------------------------------------------
\* Properties of persistence and rest timers
\* ------------------------------------------------------------------------
\* C6 as stated: mounting the page with no time elapsed since the stored
\* snapshot of the same user and workout was written restores the progress
\* counts, the weight overrides and the rest-timer states of the snapshot.
C6_RoundTripOnRemount ==
    [][(Mount /\ stored.present /\ stored.lastUpdated = now) =>
          /\ page'.progressMap = stored.progressMap
          /\ page'.weightOverrides = stored.weightOverrides
          /\ page'.restTimers = stored.restTimers]_vars

\* C7: no rest timer of the mounted page, and none in the stored snapshot,
\* is active with nothing remaining.
C7_NoActiveTimerAtZero ==
    /\ page.mounted =>
          \A e \in Exercises :
              ~(page.restTimers[e].active /\ page.restTimers[e].remaining = 0)
    /\ stored.present =>
          \A e \in Exercises :
              ~(stored.restTimers[e].active /\ stored.restTimers[e].remaining = 0)

\* a timer has been counted down to zero
C7_Witness ==
    /\ page.mounted
    /\ \E e \in Exercises :
          /\ page.restTimers[e].remaining = 0
          /\ ~page.restTimers[e].active
          /\ hist.sessLogs[e] > 0

\* the page stays the same mounted instance over the step
samePage == page.mounted /\ page'.mounted /\ page'.inst = page.inst

allSetsDone == Exercises # {} /\ \A e \in Exercises : page.progressMap[e] = ExSets(e)

\* C9: a finish request finalizes without a prompt exactly when every
\* exercise has all its sets completed; otherwise it opens the prompt and
\* finalizes nothing; finalizeWorkout is only ever called by such a request
\* or by confirming the prompt; cancelling the prompt leaves status,
\* progress, timer and stored snapshot as they are.
C9_FinishRequest ==
    [][/\ handleFinishWorkoutRequest =>
            IF allSetsDone
              THEN hist'.finalized = hist.finalized + 1 /\ ~page'.confirmFinishOpen
              ELSE /\ page'.confirmFinishOpen
                   /\ hist'.finalized = hist.finalized
                   /\ finals' = finals
                   /\ page'.sessionStatus = page.sessionStatus
                   /\ timer' = timer
                   /\ stored' = stored
       /\ hist'.finalized # hist.finalized =>
            \/ handleForceFinish
            \/ handleFinishWorkoutRequest /\ allSetsDone
       /\ CancelFinish =>
            /\ page'.sessionStatus = page.sessionStatus
            /\ page'.progressMap = page.progressMap
            /\ timer' = timer
            /\ stored' = stored
            /\ hist'.finalized = hist.finalized
      ]_vars

\* the prompt is open on a session in progress with sets left, nothing finalized
C9_Witness ==
    /\ page.mounted
    /\ page.confirmFinishOpen
    /\ page.sessionStatus = "in_progress"
    /\ hist.sessLogs[1] = 1
    /\ hist.finalized = 0

\* C10 as stated: once finalize has run there is no entry under the key, and
\* the page that finalized, while it stays mounted, writes none.
C10_NoEntryAfterFinalize ==
    (toast = "Treino finalizado" \/ (page.mounted /\ page.sessionStatus = "completed"))
        => ~stored.present

\* where the router offers no block(), finalize leaves no entry behind
C10_NoEntryWithoutBlocker ==
    ~canBlock => C10_NoEntryAfterFinalize

\* ------------------------------------------------------------------------
\* Properties of the timer status
\* ------------------------------------------------------------------------
\* C11 as stated: the timer status moves only from idle to in_progress, from
\* in_progress to completed or idle, and from completed back to in_progress
\* only in a syncTimer call.
C11_StatusTransitions ==
    [][timer'.status # timer.status =>
          \/ timer.status = "idle" /\ timer'.status = "in_progress"
          \/ timer.status = "in_progress" /\ timer'.status \in {"completed", "idle"}
          \/ /\ timer.status = "completed" /\ timer'.status = "in_progress"
             /\ \E payload \in Payloads : CallSyncTimer(payload)
      ]_vars

\* C11, amended: each call decides the status by itself, whatever the status
\* was: startTimer gives in_progress, finishTimer completed, resetTimer idle,
\* syncTimer the status of its normalised snapshot; the status and the
\* snapshot agree, and nothing but these calls changes the status.
C11_StatusSetByCall ==
    /\ [](timer.status = timer.snapshot.status)
    /\ [][/\ \A ts \in TimerStamps \cup {Null} :
               /\ CallStartTimer(ts) => timer'.status = "in_progress"
               /\ CallFinishTimer(ts) => timer'.status = "completed"
          /\ CallResetTimer => timer'.status = "idle"
          /\ \A payload \in Payloads :
               CallSyncTimer(payload) =>
                   timer'.status = normalizeSnapshot(payload, now).status
          /\ timer'.status # timer.status => hist'.timerCall # "none" /\ now' = now
         ]_vars

\* startTimer has set a completed timer running again
C11_Witness ==
    /\ hist.timerCall = "start"
    /\ hist.timerFrom = "completed"
    /\ timer.status = "in_progress"

\* within the page the provider's timer never goes from completed to running
C11_NoRestartInPage ==
    [][~(timer.status = "completed" /\ timer'.status = "in_progress")]_vars

\* C12: at most one interval is live, and only while the status is
\* in_progress and the provider is mounted; a completed timer shows the whole
\* seconds from its start to its end (0 when the end precedes the start), an
\* idle one shows 0; a tick fires only for a running timer and the passing
\* of time alone changes nothing, so the value shown is frozen once the
\* timer is finished or reset.
C12_OneTickerWhileRunning ==
    /\ [](/\ Cardinality(timer.intervals) <= 1
          /\ timer.intervals # {} => timer.status = "in_progress" /\ timer.mounted
          /\ timer.intervals = IF timer.ticker = Null THEN {}
                               ELSE {[start |-> timer.ticker, since |-> timer.tickerSince]}
          /\ timer.status = "completed" =>
                timer.elapsedSeconds =
                    Max(0, FloorSeconds(timer.snapshot.end - timer.snapshot.start))
          /\ timer.status = "idle" => timer.elapsedSeconds = 0)
    /\ [][/\ TimerTick => timer.status = "in_progress" /\ timer'.status = "in_progress"
          /\ now' # now => timer' = timer]_vars

\* a running timer was finished and the clock has moved on by whole seconds
\* since, while the value shown is still the one frozen at the end
C12_Witness ==
    /\ hist.timerCall = "finish"
    /\ hist.timerFrom = "in_progress"
    /\ timer.status = "completed"
    /\ timer.intervals = {}
    /\ tickCompute(timer.snapshot.start, now) # timer.elapsedSeconds

\* ------------------------------------------------------------------------
\* Properties of hydration
\* ------------------------------------------------------------------------
\* the entry belongs to the current schema version, user and workout
matchesContext(entry) ==
    /\ entry.version = SESSION_STORAGE_VERSION
    /\ entry.userId = CurrentUserId
    /\ entry.workoutId = CurrentWorkoutId

\* C13 as stated: mounting over a stored entry starts idle with zero progress
\* exactly when the entry does not match the current version, user and
\* workout; a matching entry has its progress, status and start timestamp
\* restored.
C13_DiscardedIffMismatch ==
    [][(Mount /\ stored.present) =>
          IF matchesContext(stored)
            THEN /\ page'.progressMap = sanitizeProgressMapState(stored.progressMap)
                 /\ page'.sessionStatus = stored.sessionStatus
                 /\ page'.sessionStart = stored.sessionStart
            ELSE /\ page'.progressMap = ZeroProgress
                 /\ page'.sessionStatus = "idle"
                 /\ ~stored'.present]_vars

\* C14 as stated: mounting over a matching in_progress snapshot with start s
\* leaves session and timer in_progress with elapsed = floor((now - s)/1000);
\* over a completed snapshot with end e it leaves the timer completed, showing
\* floor((e - s)/1000), with no live interval.
C14_TimerResumedFromSnapshot ==
    [][(Mount /\ stored.present /\ matchesContext(stored)) =>
          /\ stored.sessionStatus = "in_progress" =>
                /\ page'.sessionStatus = "in_progress"
                /\ timer'.status = "in_progress"
                /\ timer'.intervals # {}
                /\ timer'.elapsedSeconds = FloorSeconds(now - stored.sessionStart)
          /\ stored.sessionStatus = "completed" =>
                /\ timer'.status = "completed"
                /\ timer'.intervals = {}
                /\ timer'.elapsedSeconds =
                      FloorSeconds(stored.sessionEnd - stored.sessionStart)]_vars

\* ------------------------------------------------------------------------
\* Properties of leaving the page
\* ------------------------------------------------------------------------
\* what a step does to the exit guard: an attempted navigation during a
\* session in progress opens the prompt and keeps the page; cancelling the
\* prompt changes nothing else; confirming it leaves the page and leaves the
\* stored snapshot as it is
guardedStep ==
    /\ (NavigateAway /\ page.sessionStatus = "in_progress") =>
          /\ page'.mounted
          /\ page'.exitPromptOpen
          /\ page'.sessionStatus = "in_progress"
          /\ page'.progressMap = page.progressMap
          /\ timer' = timer
          /\ stored' = stored
    /\ handleCancelNavigationExit =>
          /\ page' = [page EXCEPT !.exitPromptOpen = FALSE, !.pendingNavigation = FALSE]
          /\ timer' = timer
          /\ stored' = stored
    /\ (handleConfirmNavigationExit /\ page.pendingNavigation) =>
          /\ ~page'.mounted
          /\ stored' = stored

\* C15 as stated: while the session is in_progress every navigation attempt
\* is intercepted with the exit prompt; cancel keeps the session unchanged;
\* confirm performs the navigation and leaves the stored snapshot in place.
C15_NavigationGuard == [][guardedStep]_vars

\* where the router offers block(), the guard is as C15 states
C15_GuardWithBlocker == [][canBlock => guardedStep]_vars

\* C19 as stated: when finalize has run the session page has been left: its
\* navigation was not intercepted, and no exit prompt or pending navigation
\* is open anywhere.
C19_FinalizeLeavesPage ==
    toast = "Treino finalizado" =>
        /\ ~page.mounted
        /\ ~page.exitPromptOpen
        /\ ~page.pendingNavigation

\* where the router offers no block(), finalize does leave the page
C19_LeavesPageWithoutBlocker ==
    ~canBlock => C19_FinalizeLeavesPage

\* a finalize of the mounted page never leaves a prompt or a pending
\* navigation on that page, intercepted or not
C19_NoPromptLeftOnFinalizedPage ==
    (toast = "Treino finalizado" /\ page.mounted /\ page.sessionStatus = "completed") =>
        ~page.exitPromptOpen /\ ~page.pendingNavigation

\* ------------------------------------------------------------------------
\* Properties of the template import
\* ------------------------------------------------------------------------
\* the exercise rows of the workout the last import created, in insertion order
importedRows ==
    SelectSeq(db.exercises, LAMBDA row : row.workout_id = workoutsPage.lastImport.workoutId)

importedTemplate == workoutsPage.templates[workoutsPage.lastImport.template]

\* the stored set_plan column holds the plan entry for entry
storedVerbatim(column, plan) ==
    /\ column.type = "array"
    /\ Len(column.items) = Len(plan)
    /\ \A k \in DOMAIN plan :
         \A name \in {"set", "reps", "weight"} :
            Field(column.items[k], name) =
              IF plan[k][name] = Null THEN JUndefined ELSE JNumber(plan[k][name])

\* C16 as stated: a successful import creates one workout and, for each
\* template exercise in template order, one exercise row whose order_index
\* is its position, whose sets is the length of its set plan, whose reps and
\* weight are those of the first plan entry and whose set_plan is the
\* template's set plan.
C16_RowsFollowSetPlan ==
    workoutsPage.lastImport.outcome = "ok" =>
       /\ Cardinality({w \in DOMAIN db.workouts :
                         db.workouts[w].id = workoutsPage.lastImport.workoutId}) = 1
       /\ Len(importedRows) = Len(importedTemplate.exercises)
       /\ \A i \in DOMAIN importedRows :
            LET row == importedRows[i]
                plan == importedTemplate.exercises[i].set_plan
            IN  /\ row.order_index = i - 1
                /\ row.sets = Len(plan)
                /\ Len(plan) > 0
                /\ row.reps = plan[1].reps
                /\ row.weight = plan[1].weight
                /\ storedVerbatim(row.set_plan, plan)

\* C16: a successful import creates one workout and, for each template
\* exercise in template order, one exercise row whose order_index is its
\* position.  For a non-empty set plan, sets is its length, reps and weight
\* are those of its first entry, 10 and 0 standing in for a missing one, and
\* set_plan is the plan entry for entry; for an empty plan the row has sets 3,
\* reps 10, weight 0 and no set_plan.  An import without a session or whose
\* workout insert fails creates nothing; one whose exercise insert fails
\* leaves the workout without rows.
C16_RowsFollowSetPlanOrDefaults ==
    LET imp == workoutsPage.lastImport
        created == Cardinality({w \in DOMAIN db.workouts : db.workouts[w].id = imp.workoutId})
    IN  /\ imp.outcome = "ok" =>
             /\ created = 1
             /\ Len(importedRows) = Len(importedTemplate.exercises)
             /\ \A i \in DOMAIN importedRows :
                  LET row == importedRows[i]
                      plan == importedTemplate.exercises[i].set_plan
                  IN  /\ row.order_index = i - 1
                      /\ IF Len(plan) > 0
                           THEN /\ row.sets = Len(plan)
                                /\ row.reps = IF plan[1].reps = Null THEN 10 ELSE plan[1].reps
                                /\ row.weight = IF plan[1].weight = Null THEN 0 ELSE plan[1].weight
                                /\ storedVerbatim(row.set_plan, plan)
                           ELSE /\ row.sets = 3
                                /\ row.reps = 10
                                /\ row.weight = 0
                                /\ row.set_plan = JNull
        /\ imp.outcome \in {"no_session", "workout_error"} => created = 0
        /\ imp.outcome = "exercises_error" => created = 1 /\ importedRows = << >>

\* C16 witness: a template of two exercises was imported, the first with a
\* two-entry plan whose first entry has reps and weight, the second without plan
C16_Witness ==
    /\ workoutsPage.lastImport.outcome = "ok"
    /\ Len(importedRows) = 2
    /\ Len(importedTemplate.exercises[1].set_plan) = 2
    /\ importedTemplate.exercises[1].set_plan[1].reps = 8
    /\ importedRows[1].sets = 2
    /\ importedRows[1].weight = 20
    /\ importedTemplate.exercises[2].set_plan = << >>
    /\ importedRows[2].order_index = 1

\* ------------------------------------------------------------------------
\* Properties of the stored-session scan
\* ------------------------------------------------------------------------
\* the readable entries a call may return: the user's, running, fresh
eligibleSessions(call) ==
    LET sessions == readStoredSessions(notFound.localStorage, call.at)
    IN  { sessions[i] : i \in { j \in DOMAIN sessions :
            /\ sessions[j].metadata.userId = call.userId
            /\ sessions[j].metadata.sessionStatus = "in_progress"
            /\ call.at - sessions[j].metadata.lastUpdated <= call.maxAgeMs } }

\* C17: a call of findLatestActiveSession returns an entry under the storage
\* prefix that belongs to the user, is in_progress and is no older than
\* maxAge, with the greatest lastUpdated of all such entries, and returns
\* null when there is none.
C17_LatestActiveSession ==
    notFound.call.made =>
       LET call == notFound.call
           eligible == eligibleSessions(call)
       IN  IF eligible = {}
             THEN call.result = NoSession
             ELSE /\ call.result \in eligible
                  /\ call.result.key.prefixed
                  /\ \A entry \in eligible :
                       entry.metadata.lastUpdated <= call.result.metadata.lastUpdated

\* C17 witness: a call returned the user's running session although the
\* storage also holds a more recent session of another user
C17_Witness ==
    /\ notFound.call.made
    /\ notFound.call.result # NoSession
    /\ notFound.call.result.metadata.userId = << "u", "1" >>
    /\ \E i \in DOMAIN notFound.localStorage :
         /\ notFound.localStorage[i].key.name = 3
    /\ notFound.call.maxAgeMs = DefaultMaxAgeMs

\* ------------------------------------------------------------------------
\* Properties of parseSetPlan
\* ------------------------------------------------------------------------
\* the object-shaped entries of the exercises column of the catalogue row
rawExercisesOf(row) ==
    IF Field(row, "exercises").type = "array"
      THEN SelectSeq(Field(row, "exercises").items, isObjectShaped)
      ELSE << >>

\* every set_plan column the page has parsed, with the list it was parsed to
parsedPlans ==
    IF workoutsPage.templates = << >> THEN {}
    ELSE { [raw |-> Field(rawExercisesOf(db.workout_templates[1])[i], "set_plan"),
            parsed |-> workoutsPage.templates[1].exercises[i].set_plan] :
              i \in DOMAIN workoutsPage.templates[1].exercises }

\* the parsed entry carries the numbers of the raw one; without a set index
\* it is given the position
entryMatches(rawEntry, parsedEntry, position) ==
    /\ Field(rawEntry, "set").type = "number" => parsedEntry.set = Field(rawEntry, "set").value
    /\ Field(rawEntry, "set").type = "undefined" => parsedEntry.set = position
    /\ Field(rawEntry, "reps").type = "number" /\ Field(rawEntry, "reps").value > 0
         => parsedEntry.reps = Field(rawEntry, "reps").value
    /\ Field(rawEntry, "weight").type = "number" /\ Field(rawEntry, "weight").value > 0
         => parsedEntry.weight = Field(rawEntry, "weight").value
    /\ Field(rawEntry, "reps").type = "undefined" => parsedEntry.reps = Null
    /\ Field(rawEntry, "weight").type = "undefined" => parsedEntry.weight = Null

\* C18 as stated: the result has no entry for an input entry that is not
\* object-shaped, keeps the other entries in their order, numbers an entry
\* without a set index sequentially from 1, and is empty for a non-array.
C18_NonObjectEntriesDiscarded ==
    \A p \in parsedPlans :
       IF p.raw.type # "array" THEN p.parsed = << >>
       ELSE LET kept == SelectSeq(p.raw.items, isObjectShaped)
            IN  /\ Len(p.parsed) = Len(kept)
                /\ \A k \in DOMAIN kept : entryMatches(kept[k], p.parsed[k], k)

\* C18: the result has one entry for every input entry, in the order of the
\* input: an entry that is not object-shaped becomes an entry with only a
\* set index, an entry without a set index is given its 1-based position in
\* the input, and the result is empty for a non-array.
C18_OneEntryPerInputEntry ==
    \A p \in parsedPlans :
       IF p.raw.type # "array" THEN p.parsed = << >>
       ELSE /\ Len(p.parsed) = Len(p.raw.items)
            /\ \A k \in DOMAIN p.raw.items :
                 IF isObjectShaped(p.raw.items[k])
                   THEN entryMatches(p.raw.items[k], p.parsed[k], k)
                   ELSE p.parsed[k] = [set |-> k, reps |-> Null, weight |-> Null]

\* C18 witness: a parsed plan whose input starts with an entry that is not
\* object-shaped, followed by an object without a set index
C18_Witness ==
    \E p \in parsedPlans :
       /\ p.raw.type = "array"
       /\ Len(p.raw.items) = 2
       /\ ~isObjectShaped(p.raw.items[1])
       /\ isObjectShaped(p.raw.items[2])
       /\ Field(p.raw.items[2], "set").type = "undefined"
       /\ p.parsed[2].set = 2

\* ------------------------------------------------------------------------
\* Properties of the rest duration
\* ------------------------------------------------------------------------
\* C20 as stated: the rest timer restarted by a completion before the last
\* set has duration and remaining equal to the configured rest_seconds.
C20_RestartsAtConfiguredRest ==
    restCard.lastStep = "restart" =>
       /\ restCard.timer.duration = restCard.rest_seconds
       /\ restCard.timer.remaining = restCard.rest_seconds

\* C20: the rest timer restarted by a completion before the last set is
\* active with duration and remaining equal to the configured rest_seconds
\* raised to the minimum of 10 seconds, and to 60 seconds when rest_seconds
\* is 0.
C20_RestartsAtClampedRest ==
    restCard.lastStep = "restart" =>
       LET expected == IF restCard.rest_seconds = 0 THEN 60
                       ELSE IF restCard.rest_seconds < 10 THEN 10
                       ELSE restCard.rest_seconds
       IN  /\ restCard.timer.active
           /\ restCard.timer.duration = expected
           /\ restCard.timer.remaining = expected

\* C20 witness: the timer of an exercise configured with no rest was
\* restarted by its second completion
C20_Witness ==
    /\ restCard.lastStep = "restart"
    /\ restCard.rest_seconds = 0
    /\ restCard.progress = 2
    /\ restCard.timer.remaining = 60

coerced(rawField) ==
    IF rawField.type = "number" THEN rawField.value
    ELSE IF rawField.type = "string" /\ rawField.chars # << >> THEN Number(rawField.chars)
    ELSE NaN

\* C22: for every object-shaped plan entry, reps (respectively weight) is
\* unset exactly when the input field is missing or is not a finite number
\* after coercing numeric strings, and every finite value, 0 included, given
\* as a number or as a numeric string, comes back unchanged.
C22_FiniteValuesKept ==
    \A p \in parsedPlans :
       p.raw.type = "array" =>
          \A k \in DOMAIN p.raw.items :
             isObjectShaped(p.raw.items[k]) =>
                \A name \in {"reps", "weight"} :
                   LET value == coerced(Field(p.raw.items[k], name))
                   IN  p.parsed[k][name] = IF value = NaN THEN Null ELSE value

\* C22 holds for every value other than 0
C22_NonZeroValuesKept ==
    \A p \in parsedPlans :
       p.raw.type = "array" =>
          \A k \in DOMAIN p.raw.items :
             isObjectShaped(p.raw.items[k]) =>
                \A name \in {"reps", "weight"} :
                   LET value == coerced(Field(p.raw.items[k], name))
                   IN  p.parsed[k][name] = IF value \in {NaN, 0} THEN Null ELSE value

\* ------------------------------------------------------------------------
\* Properties of the session volume
\* ------------------------------------------------------------------------
\* every insert issued by this step logs the plan entry's reps for the set
\* index, else the exercise's reps, and the weight override, else the
\* exercise's weight
logsResolvedValues ==
    \A r \in requests' \ requests :
       /\ r.reps = IF r.currentCount < Len(ExSetPlan(r.ex)) /\ ExSetPlan(r.ex)[r.currentCount + 1].reps # Null
                     THEN ExSetPlan(r.ex)[r.currentCount + 1].reps
                     ELSE ExReps(r.ex)
       /\ r.weight = IF page.weightOverrides[r.ex] # Null /\ page.weightOverrides[r.ex] >= 0
                       THEN page.weightOverrides[r.ex]
                       ELSE page.exWeight[r.ex]
       /\ r.currentCount = page.progressMap[r.ex]

\* C23: the session volume of the mounted page is the sum of weight x reps
\* over the log rows appended by this page instance: 0 at the start, grown
\* by the logged weight x reps at each successful insert, unchanged by a
\* failed or rejected completion; the logged reps are the plan entry's for
\* the set index or else the exercise's, the logged weight is the override
\* or else the exercise's.
C23_VolumeIsSumOfLogRows ==
    /\ [](page.mounted => page.sessionVolume = hist.sessLogVolume)
    /\ [][logsResolvedValues]_vars

\* C23 witness: both sets of the first exercise are logged, the second at
\* the weight its plan entry brought in
C23_Witness ==
    /\ page.mounted
    /\ requests = {}
    /\ hist.sessLogs[1] = 2
    /\ page.sessionVolume = 1000 * 8 + 2000 * 10

storedMatchesPage ==
    /\ stored.present
    /\ stored.sessionStatus = page.sessionStatus
    /\ stored.sessionStart = page.sessionStart
    /\ stored.progressMap = page.progressMap
    /\ stored.weightOverrides = page.weightOverrides
    /\ stored.restTimers = page.restTimers

\* C25 as stated: an entry is written only by a mounted, hydrated page
\* that has a start timestamp; while the session is in progress the stored
\* status, start, progress counts, weight overrides and rest timers are
\* those of the page; lastUpdated does not decrease from one write to the
\* next.
C25_SnapshotFollowsPage ==
    /\ []((page.mounted /\ page.sessionStatus = "in_progress") => storedMatchesPage)
    /\ [][(stored' # stored /\ stored'.present) =>
             /\ page'.mounted
             /\ page'.sessionStart # Null
             /\ stored'.lastUpdated = now]_vars
    /\ [][(stored.present /\ stored'.present) =>
             stored'.lastUpdated >= stored.lastUpdated]_vars

\* the values the persist effect depends on
persisted(p) ==
    << p.sessionStatus, p.sessionStart, p.progressMap, p.weightOverrides, p.restTimers >>

\* the writes of the page itself: a step that changes one of these values
\* of a page in progress leaves them in the stored entry, and the two
\* conditions on the writes hold
C25_WritesFollowPage ==
    /\ [][(page'.mounted /\ page'.sessionStatus = "in_progress"
             /\ persisted(page') # persisted(page)) => storedMatchesPage']_vars
    /\ [][(stored' # stored /\ stored'.present) =>
             /\ page'.mounted
             /\ page'.sessionStart # Null
             /\ stored'.lastUpdated = now]_vars
    /\ [][(stored.present /\ stored'.present) =>
             stored'.lastUpdated >= stored.lastUpdated]_vars

\* ------------------------------------------------------------------------
\* Properties of the focused exercise
\* ------------------------------------------------------------------------
hasSetsRemaining(e) == page.progressMap[e] < ExSets(e)

\* C26: on a page in progress the focused exercise is the selected one if it
\* has sets remaining, otherwise the first exercise in order with sets
\* remaining (none when every exercise is finished); a finished exercise is
\* never focused; outside in_progress no exercise is focused.
C26_FocusHasSetsRemaining ==
    page.mounted =>
       /\ page.sessionStatus = "in_progress" =>
             /\ focusExerciseId(page) =
                   IF page.activeExerciseId # Null /\ hasSetsRemaining(page.activeExerciseId)
                     THEN page.activeExerciseId
                   ELSE IF \E e \in Exercises : hasSetsRemaining(e)
                     THEN CHOOSE e \in Exercises :
                             /\ hasSetsRemaining(e)
                             /\ \A f \in Exercises : hasSetsRemaining(f) => e <= f
                   ELSE Null
             /\ focusExerciseId(page) # Null => hasSetsRemaining(focusExerciseId(page))
       /\ page.sessionStatus # "in_progress" => focusExerciseId(page) = Null

\* the second exercise is selected while the first one, which the automatic
\* suggestion would take, has a set remaining and a completion in flight
C26_Witness ==
    /\ page.mounted
    /\ page.sessionStatus = "in_progress"
    /\ page.progressMap[1] = 1
    /\ page.activeExerciseId = 2
    /\ nextExercise(page) = 1
    /\ focusExerciseId(page) = 2

\* ------------------------------------------------------------------------
\* Properties of set completions in flight
\* ------------------------------------------------------------------------
\* C27 as stated: with no insert in flight, the stored count of an exercise
\* does not exceed the number of sets logged for it in the session, whether
\* or not the page is still mounted.
C27_StoredCountWithinLoggedSets ==
    (requests = {} /\ stored.present) =>
        \A e \in Exercises : stored.progressMap[e] <= hist.sessLogs[e]

\* the same for a page that stayed mounted until the response
C27_StoredCountWithinLoggedSetsWhileMounted ==
    (requests = {} /\ stored.present /\ page.mounted) =>
        \A e \in Exercises : stored.progressMap[e] <= hist.sessLogs[e]

\* the other exercises keep their count, their rest timer, their override
\* and their saving flag
othersUntouched(e) ==
    \A f \in Exercises \ {e} :
       /\ page'.progressMap[f] = page.progressMap[f]
       /\ page'.restTimers[f] = page.restTimers[f]
       /\ page'.weightOverrides[f] = page.weightOverrides[f]
       /\ page'.saving[f] = page.saving[f]

\* C28: a response to the mounted page acts on its own exercise only,
\* whatever else is in flight and in whichever order the responses come: a
\* success leaves the count one above the count at the tap and adds the
\* set's weight x reps to the volume; a failure puts the count back and
\* leaves the volume; the other exercises are untouched by both.
C28_ResponsesDoNotInterfere ==
    [][\A r \in requests :
          /\ (InsertOk(r) /\ live(r)) =>
                /\ page'.progressMap[r.ex] = r.currentCount + 1
                /\ page'.sessionVolume = page.sessionVolume + r.weight * r.reps
                /\ othersUntouched(r.ex)
          /\ (InsertFail(r) /\ live(r)) =>
                /\ page'.progressMap[r.ex] = r.currentCount
                /\ page'.sessionVolume = page.sessionVolume
                /\ othersUntouched(r.ex)]_vars

\* the insert of exercise 1 has just failed while the insert of exercise 2,
\* tapped before that response, is still in flight: only the count of
\* exercise 1 is back at 0
C28_Witness ==
    /\ page.mounted
    /\ toast = "Erro ao registrar"
    /\ hist.requested = 2
    /\ \E q \in requests : q.ex = 2 /\ live(q) /\ requests = {q}
    /\ page.progressMap[1] = 0
    /\ page.progressMap[2] = 1
    /\ page.saving[2]

\* ------------------------------------------------------------------------
\* Properties of the session status
\* ------------------------------------------------------------------------
\* the status of the timer context is the status of the page
C29_TimerStatusIsSessionStatus ==
    page.mounted => timer.status = page.sessionStatus

\* the page is idle exactly when it has no start timestamp
C29_IdleIffNoStart ==
    page.mounted => (page.sessionStatus = "idle" <=> page.sessionStart = Null)

\* C29 as stated: on a mounted, hydrated page whose effects have run the
\* timer status is the session status, and the session status is idle
\* exactly when the start timestamp is null.
C29_StatusesAgree ==
    C29_TimerStatusIsSessionStatus /\ C29_IdleIffNoStart

\* C30: within one page instance a completed session stays completed (it is
\* not started again and does not become idle) and its end timestamp does
\* not change, whatever finalize is repeated or still in flight.
C30_CompletedKeepsEnd ==
    [][(samePage /\ page.sessionStatus = "completed") =>
          /\ page'.sessionStatus = "completed"
          /\ page'.sessionEnd = page.sessionEnd]_vars

\* the page is completed while a finalize that was requested before the
\* first one returned, and so has no end timestamp of its own, is still in
\* flight at a later time
C30_Witness ==
    /\ page.mounted
    /\ page.sessionStatus = "completed"
    /\ now > page.sessionEnd
    /\ \E i \in DOMAIN finals : finals[i].inst = page.inst /\ finals[i].sessionEnd = Null

====
